---- MODULE Spec2Model ----
(***************************************************************************)
(* Model of the SnarkySage chat server: the chat / image provider          *)
(* fallback chains (services/openai, services/vision, services/free-vision)*)
(* the toy chess opponent (ChessEngine) and the in-memory store            *)
(* (MemStorage).                                                           *)
(*                                                                         *)
(* Texts are sequences of tokens: the token " " is one space character,    *)
(* every other token is a word or a fixed fragment of a template string.   *)
(* The empty string is the empty sequence.  Chess moves are sequences of   *)
(* single characters.                                                      *)
(***************************************************************************)
EXTENDS Integers, Sequences, FiniteSets, TLC

VARIABLES
    \* ---- move validator driver (pure function isValidMove)
    vInput,        \* the string handed to isValidMove
    vResult        \* "unchecked" | "accepted" | "rejected"

valVars == <<vInput, vResult>>

VARIABLES
    \* ---- MemStorage (server/storage.ts)
    chatSessions,  \* Map id -> ChatSession, as the sequence of its entries in insertion order
    chatMessages,  \* Map id -> ChatMessage, as the sequence of its entries in insertion order
    uuidCount,     \* how many identifiers randomUUID() has handed out
    now            \* the reading of the system clock (new Date())

storeVars == <<chatSessions, chatMessages, uuidCount, now>>

VARIABLES
    \* ---- ChessEngine: the module-level instance chessEngine (services/chess)
    gameState,     \* [moves, gameOver, winner]
    stockfish,     \* TRUE when the child process handle is set
    isReady,       \* TRUE after the engine has answered "uciok"
    searches,      \* positions sent to the engine and not answered yet, oldest first
    waiting,       \* sessions whose makeMove awaits getAIMove, in the order they registered
    shown          \* per session: the moves its last chess reply displayed

chessVars == <<gameState, stockfish, isReady, searches, waiting, shown>>

VARIABLES
    \* ---- one call of generateImage or analyzeImage (services/vision)
    imgFn,         \* the function called: "generateImage" | "analyzeImage"
    imgPrompt,     \* the prompt (generateImage) or the image data (analyzeImage)
    fetchTimeout,  \* TRUE when the installed node-fetch honours the "timeout" option
    imgPc,         \* the fetch awaited: [seg, i], or Returned / Hung
    imgAwait,      \* "pending" | "silent": the provider of the awaited fetch never answers
    imgTried,      \* the remote endpoints fetched so far, in order
    imgResult,     \* the value the call resolved to, or NoResult
    routeBranch    \* branch of the route that called it: "none" | "success" | "failure"

imgVars == <<imgFn, imgPrompt, fetchTimeout, imgPc, imgAwait, imgTried, imgResult, routeBranch>>

VARIABLES
    \* ---- one call of generateSarcasticResponseStream or generateSarcasticResponse
    cEntry,        \* the function called: "stream" | "plain"
    cMessage,      \* userMessage
    cOnChunk,      \* TRUE when the caller passed an onChunk callback
    cUserLocation, \* TRUE when the caller passed userLocation (browser coordinates)
    cPc,           \* [fn, at, i]: the function body running, the await it is at, the model index
    cAwait,        \* "pending" | "silent": the awaited party never answers
    cContext,      \* contextInfo of the function body running
    cInvoked,      \* the provider invocations so far: [provider, mode, outcome, value]
    cFull,         \* callLLM7Stream: fullResponse
    cChunks,       \* the chunks passed to the caller's onChunk, in order
    cWords,        \* the chunks the word-by-word loop still has to pass
    cResponse,     \* the value that loop returns when it is through
    cResult        \* the value the call resolved to, or NoReply

chatVars == <<cEntry, cMessage, cOnChunk, cUserLocation, cPc, cAwait, cContext, cInvoked, cFull,
              cChunks, cWords, cResponse, cResult>>

VARIABLES
    \* ---- the HTTP routes (registerRoutes)
    inflight,      \* the requests that await an outside service, oldest first
    lastResponse   \* the response sent last: [route, sessionId, status, ...]

routeVars == <<inflight, lastResponse>>

VARIABLES
    \* ---- the Chat page of the client (client/src/pages/chat) with useGeolocation
    geoData,          \* useGeolocation's state data: null or a GeolocationData
    messageInput,     \* the text in the input box
    isTyping,         \* TRUE while handleSubmit runs
    currentSessionId, \* 0 (null) until createNewSession's response arrives
    submitPc,         \* where the running handleSubmit is: "idle" | "requestPermission" | "fetch" | "response"
    submitBody,       \* the body handleSubmit builds, NoBody before
    submitOutcome     \* how the last handleSubmit ended: "none" | "ok" | "toast"

clientVars == <<geoData, messageInput, isTyping, currentSessionId, submitPc, submitBody,
                submitOutcome>>

vars == <<valVars, storeVars, chessVars, imgVars, chatVars, routeVars, clientVars>>

-----------------------------------------------------------------------------
(* The state of each part before anything has run.  A specification of one *)
(* part starts the other parts here and leaves them unchanged.             *)

\* no string has been handed to the validator
ValidatorIdle ==
    /\ vInput = <<>>
    /\ vResult = "unchecked"

\* ChessEngine's constructor: the starting position, no engine process
NewGameState == [moves |-> <<>>, gameOver |-> FALSE, winner |-> "none"]

Sessions == {"s1", "s2"}
NotShown == <<<<"-">>>>

ChessIdle ==
    /\ gameState = NewGameState
    /\ stockfish = FALSE
    /\ isReady = FALSE
    /\ searches = <<>>
    /\ waiting = <<>>
    /\ shown = [s \in Sessions |-> NotShown]

\* no image call has been made
NoResult == [origin |-> "none"]
NotCalled == [seg |-> "none", i |-> 0]

ImageIdle ==
    /\ imgFn = "none"
    /\ imgPrompt = <<>>
    /\ fetchTimeout = FALSE
    /\ imgPc = NotCalled
    /\ imgAwait = "pending"
    /\ imgTried = <<>>
    /\ imgResult = NoResult
    /\ routeBranch = "none"

\* no chat call has been made
NoReply == [type |-> "none", text |-> <<>>]
NotStarted == [fn |-> "none", at |-> "none", i |-> 0]

ChatIdle ==
    /\ cEntry = "none"
    /\ cMessage = <<>>
    /\ cOnChunk = FALSE
    /\ cUserLocation = FALSE
    /\ cPc = NotStarted
    /\ cAwait = "pending"
    /\ cContext = <<>>
    /\ cInvoked = <<>>
    /\ cFull = <<>>
    /\ cChunks = <<>>
    /\ cWords = <<>>
    /\ cResponse = NoReply
    /\ cResult = NoReply

\* no request has been received
NoResponse == [route |-> "none"]
RoutesIdle ==
    /\ inflight = <<>>
    /\ lastResponse = NoResponse

\* a JSON value of a body's userLocation: undefined, null, or an object given
\* as the set of its <<key, value>> pairs
NoLocation == [type |-> "undefined", fields |-> {}]
NullLocation == [type |-> "null", fields |-> {}]
NoBody == [content |-> [type |-> "undefined", text |-> <<>>], role |-> "none",
           userLocation |-> NoLocation, hasImageUrl |-> FALSE]

\* the Chat page before it is mounted, with no location known
ClientIdle ==
    /\ geoData = NullLocation
    /\ messageInput = <<>>
    /\ isTyping = FALSE
    /\ currentSessionId = 0
    /\ submitPc = "idle"
    /\ submitBody = NoBody
    /\ submitOutcome = "none"

\* MemStorage's constructor: empty maps
StoreEmpty ==
    /\ chatSessions = <<>>
    /\ chatMessages = <<>>
    /\ uuidCount = 0
    /\ now = 0

-----------------------------------------------------------------------------
(* Generic helpers on sequences                                            *)

RECURSIVE Concat(_)
Concat(ss) == IF ss = <<>> THEN <<>> ELSE Head(ss) \o Concat(Tail(ss))

RECURSIVE SeqsUpTo(_, _)
SeqsUpTo(S, n) ==
    IF n = 0 THEN {<<>>}
    ELSE LET shorter == SeqsUpTo(S, n - 1)
         IN  shorter \cup {Append(s, c) : s \in {t \in shorter : Len(t) = n - 1}, c \in S}

-----------------------------------------------------------------------------
(* ChessEngine.isValidMove: /^[a-h][1-8][a-h][1-8][qrbn]?$/ tested on the  *)
(* lower-cased move.                                                       *)

UpperCase == <<"A", "B", "C", "D", "E", "F", "G", "H", "K", "N", "Q", "R", "Hello">>
LowerCase == <<"a", "b", "c", "d", "e", "f", "g", "h", "k", "n", "q", "r", "hello">>

\* a faulty variant: the move is tested without lower-casing
toLowerCaseChar_identity(c) == c

\* String.prototype.toLowerCase on one character
toLowerCaseChar(c) ==
    IF \E i \in DOMAIN UpperCase : UpperCase[i] = c
    THEN LowerCase[CHOOSE i \in DOMAIN UpperCase : UpperCase[i] = c]
    ELSE c

toLowerCase(s) == [i \in DOMAIN s |-> toLowerCaseChar(s[i])]

Files == {"a", "b", "c", "d", "e", "f", "g", "h"}
Ranks == {"1", "2", "3", "4", "5", "6", "7", "8"}
Promotions == {"q", "r", "b", "n"}

\* the regular expression as a sequence of character classes, the last optional
movePattern ==
    << [class |-> Files, optional |-> FALSE],
       [class |-> Ranks, optional |-> FALSE],
       [class |-> Files, optional |-> FALSE],
       [class |-> Ranks, optional |-> FALSE],
       [class |-> Promotions, optional |-> TRUE] >>

\* RegExp.prototype.test for an anchored pattern (^...$) of classes
RECURSIVE RegexTest(_, _)
RegexTest(pat, s) ==
    IF pat = <<>> THEN s = <<>>
    ELSE \/ /\ s # <<>>
            /\ Head(s) \in Head(pat).class
            /\ RegexTest(Tail(pat), Tail(s))
         \/ /\ Head(pat).optional
            /\ RegexTest(Tail(pat), s)

isValidMove(move) == RegexTest(movePattern, toLowerCase(move))


-----------------------------------------------------------------------------
(* MemStorage: the in-memory store of sessions and messages.  Every method *)
(* is an async function without an await before its last statement, so    *)
(* each call runs to completion as one step of the event loop.             *)

MaxUUID == 3       \* identifiers handed out in one run
MaxClock == 1      \* clock readings 0..MaxClock
Users == {"anonymous", "u1"}
Roles == {"user", "assistant"}
Contents == {<<"X">>}
Titles == {<<"Quick", " ", "Chat">>}
NoSession == 0     \* a session id that was never handed out

\* Map.prototype.has / get / set / delete on a Map kept as its entry sequence
MapHas(map, id) == \E i \in DOMAIN map : map[i].id = id
MapGet(map, id) == map[CHOOSE i \in DOMAIN map : map[i].id = id]
MapSet(map, id, rec) ==
    IF MapHas(map, id)
    THEN [i \in DOMAIN map |-> IF map[i].id = id THEN rec ELSE map[i]]
    ELSE Append(map, rec)
MapDelete(map, id) == SelectSeq(map, LAMBDA e : e.id # id)

\* Array.prototype.sort is stable.  Entries are [cmp, item]: an entry goes
\* before another when the comparator, the difference of their cmp values,
\* is negative, and after the entries it does not go before
\* a faulty variant: an unstable sort, which puts an entry before the
\* entries that compare equal to it
RECURSIVE InsertSorted_unstable(_, _)
InsertSorted_unstable(sorted, x) ==
    IF sorted = <<>> THEN <<x>>
    ELSE IF x.cmp - Head(sorted).cmp <= 0 THEN <<x>> \o sorted
    ELSE <<Head(sorted)>> \o InsertSorted_unstable(Tail(sorted), x)

RECURSIVE InsertSorted(_, _)
InsertSorted(sorted, x) ==
    IF sorted = <<>> THEN <<x>>
    ELSE IF x.cmp - Head(sorted).cmp < 0 THEN <<x>> \o sorted
    ELSE <<Head(sorted)>> \o InsertSorted(Tail(sorted), x)

RECURSIVE StableSort(_)
StableSort(s) ==
    IF s = <<>> THEN <<>>
    ELSE InsertSorted(StableSort(SubSeq(s, 1, Len(s) - 1)), s[Len(s)])

Items(entries) == [i \in DOMAIN entries |-> entries[i].item]

\* a faulty variant: an identifier that may have been handed out before
randomUUID_reused == IF uuidCount > 1 THEN uuidCount ELSE uuidCount + 1

\* randomUUID(): an identifier that was not handed out before
randomUUID == uuidCount + 1

\* MemStorage.getChatSession
getChatSession(id) ==
    IF MapHas(chatSessions, id) THEN MapGet(chatSessions, id) ELSE [id |-> NoSession]

\* a faulty variant: the sessions of the user in the order of the Map
getUserChatSessions_unsorted(userId) ==
    SelectSeq(chatSessions, LAMBDA s : s.userId = userId)

\* MemStorage.getUserChatSessions: most recently updated first
getUserChatSessions(userId) ==
    LET mine == SelectSeq(chatSessions, LAMBDA s : s.userId = userId)
    IN  \* (a, b) => b.updatedAt.getTime() - a.updatedAt.getTime()
        Items(StableSort([i \in DOMAIN mine |-> [cmp |-> 0 - mine[i].updatedAt, item |-> mine[i]]]))

\* MemStorage.getSessionMessages: by creation time
getSessionMessagesOf(messages, sessionId) ==
    LET mine == SelectSeq(messages, LAMBDA m : m.sessionId = sessionId)
    IN  \* (a, b) => a.createdAt.getTime() - b.createdAt.getTime()
        Items(StableSort([i \in DOMAIN mine |-> [cmp |-> mine[i].createdAt, item |-> mine[i]]]))

getSessionMessages(sessionId) == getSessionMessagesOf(chatMessages, sessionId)

\* a faulty variant: the messages of the session are kept
deleteSessionMessages_none(messages, sessionId) == messages

\* MemStorage.deleteSessionMessages
deleteSessionMessages(messages, sessionId) ==
    SelectSeq(messages, LAMBDA m : m.sessionId # sessionId)

\* the session ids a client can know: those handed out to sessions, and an unknown one
KnownSessionIds == {chatSessions[i].id : i \in DOMAIN chatSessions} \cup {NoSession}

\* MemStorage.createChatSession
CreateChatSession(userId) ==
    /\ uuidCount < MaxUUID
    /\ LET id == randomUUID
           session == [id |-> id, userId |-> userId, title |-> <<"New", " ", "Chat">>,
                       createdAt |-> now, updatedAt |-> now]
       IN  chatSessions' = MapSet(chatSessions, id, session)
    /\ uuidCount' = uuidCount + 1
    /\ UNCHANGED <<chatMessages, now>>
    /\ UNCHANGED <<valVars, chessVars, imgVars, chatVars, routeVars, clientVars>>

\* MemStorage.updateChatSession with updates = { title } or {}
UpdateChatSession(id, withTitle, title) ==
    /\ IF MapHas(chatSessions, id)
       THEN LET session == MapGet(chatSessions, id)
                updated == [session EXCEPT
                              !.title = IF withTitle THEN title ELSE @,
                              !.updatedAt = now]
            IN  chatSessions' = MapSet(chatSessions, id, updated)
       ELSE UNCHANGED chatSessions
    /\ UNCHANGED <<chatMessages, uuidCount, now>>
    /\ UNCHANGED <<valVars, chessVars, imgVars, chatVars, routeVars, clientVars>>

\* MemStorage.deleteChatSession: the value returned, Map.prototype.delete's
deleteChatSession_returns(id) == MapHas(chatSessions, id)

\* MemStorage.deleteChatSession
DeleteChatSession(id) ==
    /\ chatSessions' = MapDelete(chatSessions, id)
    /\ chatMessages' = IF MapHas(chatSessions, id)
                       THEN deleteSessionMessages(chatMessages, id)
                       ELSE chatMessages
    /\ UNCHANGED <<uuidCount, now>>
    /\ UNCHANGED <<valVars, chessVars, imgVars, chatVars, routeVars, clientVars>>

\* MemStorage.createChatMessage
CreateChatMessage(sessionId, role, content) ==
    /\ uuidCount < MaxUUID
    /\ LET id == randomUUID
           message == [id |-> id, sessionId |-> sessionId, role |-> role,
                       content |-> content, createdAt |-> now]
       IN  chatMessages' = MapSet(chatMessages, id, message)
    /\ uuidCount' = uuidCount + 1
    /\ UNCHANGED <<chatSessions, now>>
    /\ UNCHANGED <<valVars, chessVars, imgVars, chatVars, routeVars, clientVars>>

\* the system clock advances between calls
Tick ==
    /\ now < MaxClock
    /\ now' = now + 1
    /\ UNCHANGED <<chatSessions, chatMessages, uuidCount>>
    /\ UNCHANGED <<valVars, chessVars, imgVars, chatVars, routeVars, clientVars>>

InitStore ==
    /\ StoreEmpty
    /\ RoutesIdle
    /\ ClientIdle
    /\ ValidatorIdle
    /\ ChessIdle
    /\ ImageIdle
    /\ ChatIdle

NextStore ==
    \/ \E u \in Users : CreateChatSession(u)
    \/ \E id \in KnownSessionIds, withTitle \in BOOLEAN, t \in Titles :
           UpdateChatSession(id, withTitle, t)
    \/ \E id \in KnownSessionIds : DeleteChatSession(id)
    \/ \E s \in KnownSessionIds, r \in Roles, c \in Contents :
           CreateChatMessage(s, r, c)
    \/ Tick

SpecStore == InitStore /\ [][NextStore]_vars

-----------------------------------------------------------------------------
(* C10: no message is lost.  Every createChatMessage call adds exactly one *)
(* message under an id no stored message had, leaves every earlier message *)
(* in place and unchanged, and getSessionMessages of its session then      *)
(* returns every message it returned before together with the new one.     *)

MessageIds(messages) == {messages[i].id : i \in DOMAIN messages}
MessageSet(messages) == {messages[i] : i \in DOMAIN messages}

C10_NoMessageLost ==
    [][\A s \in KnownSessionIds :
          (\E r \in Roles, c \in Contents : CreateChatMessage(s, r, c)) =>
              /\ Len(chatMessages') = Len(chatMessages) + 1
              /\ Cardinality(MessageIds(chatMessages')) = Len(chatMessages')
              /\ \A i \in DOMAIN chatMessages : chatMessages'[i] = chatMessages[i]
              /\ chatMessages'[Len(chatMessages')].id \notin MessageIds(chatMessages)
              /\ LET before == getSessionMessagesOf(chatMessages, s)
                     after == getSessionMessagesOf(chatMessages', s)
                 IN  /\ Len(after) = Len(before) + 1
                     /\ MessageSet(before) \subseteq MessageSet(after)
                     /\ chatMessages'[Len(chatMessages')] \in MessageSet(after)
    ]_vars

\* witness: two createChatMessage calls for one session have completed at the
\* same clock reading, and both messages are returned
C10_Witness ==
    \E s \in KnownSessionIds \ {NoSession} :
        LET ms == getSessionMessages(s)
        IN  /\ Len(ms) = 2
            /\ ms[1].createdAt = ms[2].createdAt
            /\ ms[1].id # ms[2].id

-----------------------------------------------------------------------------
(* C11: getUserChatSessions(u) returns exactly the stored sessions whose   *)
(* userId is u, each once, ordered by updatedAt from the most recent to    *)
(* the least recent, in every state the store reaches by createChatSession,*)
(* updateChatSession and deleteChatSession calls.                          *)

SessionsOf(userId) ==
    {chatSessions[i] : i \in {j \in DOMAIN chatSessions : chatSessions[j].userId = userId}}

C11_SessionsOfUserMostRecentFirst ==
    \A u \in Users :
        LET listed == getUserChatSessions(u)
        IN  /\ {listed[i] : i \in DOMAIN listed} = SessionsOf(u)
            /\ Len(listed) = Cardinality(SessionsOf(u))
            /\ \A i, j \in DOMAIN listed :
                   i < j => listed[i].updatedAt >= listed[j].updatedAt

\* witness: a user has two sessions, the one created later was updated
\* later, and it is listed first
C11_Witness ==
    \E u \in Users :
        LET listed == getUserChatSessions(u)
        IN  /\ Len(listed) = 2
            /\ listed[1].updatedAt > listed[2].updatedAt
            /\ listed[1].id > listed[2].id

-----------------------------------------------------------------------------
(* C12: deleting a chat removes it completely.  When deleteChatSession(id) *)
(* returns true, getChatSession(id) is undefined and getSessionMessages(id)*)
(* is empty afterwards, and the sessions and the messages of every other   *)
(* id are as before; when it returns false, nothing has changed.           *)

StoredSessionIds(sessions) == {sessions[i].id : i \in DOMAIN sessions}

C12_DeleteRemovesSessionAndMessages ==
    [][\A id \in KnownSessionIds :
          DeleteChatSession(id) =>
              IF deleteChatSession_returns(id)
              THEN /\ ~MapHas(chatSessions', id)
                   /\ getSessionMessagesOf(chatMessages', id) = <<>>
                   /\ \A m \in MessageSet(chatMessages') : m.sessionId # id
                   /\ StoredSessionIds(chatSessions') = StoredSessionIds(chatSessions) \ {id}
                   /\ \A other \in StoredSessionIds(chatSessions) \ {id} :
                          /\ MapGet(chatSessions', other) = MapGet(chatSessions, other)
                          /\ getSessionMessagesOf(chatMessages', other)
                                 = getSessionMessagesOf(chatMessages, other)
              ELSE /\ chatSessions' = chatSessions
                   /\ chatMessages' = chatMessages
    ]_vars

\* witness: a session has been deleted (its id was handed out and is stored
\* nowhere) while another session and a message of it are still stored
C12_Witness ==
    \E id \in 1..uuidCount :
        /\ ~MapHas(chatSessions, id)
        /\ ~MapHas(chatMessages, id)
        /\ \E other \in StoredSessionIds(chatSessions) :
               getSessionMessages(other) # <<>>

-----------------------------------------------------------------------------
(* C18: getSessionMessages(s) returns exactly the stored messages of       *)
(* session s, each once, in the order in which they were created (the      *)
(* order in which createChatMessage put them into the Map), also when      *)
(* several of them carry the same creation timestamp.  The clock read by   *)
(* new Date() does not go backwards.                                       *)

InCreationOrder(messages, sessionId) ==
    SelectSeq(messages, LAMBDA m : m.sessionId = sessionId)

-----------------------------------------------------------------------------
(* ChessEngine: one game, held by the module-level instance.               *)

Mv(a, b, c, d) == <<a, b, c, d>>

MaxGameEnd == 100      \* checkGameEnd: the game is drawn at this many moves
MaxPlies == 4          \* moves recorded in one game of a run
MaxSearches == 2       \* searches the engine has not answered yet

\* ChessEngine.getFallbackMove: a table keyed by the number of recorded moves
midGameMoves == << Mv("d","2","d","4"), Mv("b","1","c","3"), Mv("d","1","h","5"),
                   Mv("c","1","f","4"), Mv("a","2","a","3"), Mv("h","2","h","3") >>
fallbackMoves == << Mv("e","2","e","4"), Mv("e","2","e","3"), Mv("d","2","d","4"),
                    Mv("d","2","d","3"), Mv("g","1","f","3"), Mv("b","1","c","3") >>

\* a faulty variant: the table has no move to give
getFallbackMove_none(gs) == <<>>

getFallbackMove(gs) ==
    LET moveCount == Len(gs.moves)
    IN  IF moveCount = 0 THEN Mv("e","2","e","4")
        ELSE IF moveCount = 2 THEN Mv("g","1","f","3")
        ELSE IF moveCount = 4 THEN Mv("f","1","c","4")
        ELSE IF moveCount = 6 THEN Mv("e","1","g","1")
        ELSE IF moveCount < 12 THEN midGameMoves[(moveCount % 6) + 1]
        ELSE fallbackMoves[(moveCount % 6) + 1]

\* ChessEngine.checkGameEnd
checkGameEnd(gs) ==
    IF Len(gs.moves) >= MaxGameEnd
    THEN [gs EXCEPT !.gameOver = TRUE, !.winner = "draw"]
    ELSE gs

\* a faulty variant: the engine's move is not recorded
AfterAIMove_dropped(gs, aiMove) == checkGameEnd(gs)

\* makeMove, lines 725-730: the continuation after getAIMove has resolved
\* with aiMove (<<>> stands for undefined)
AfterAIMove(gs, aiMove) ==
    checkGameEnd(IF aiMove # <<>> THEN [gs EXCEPT !.moves = Append(@, aiMove)] ELSE gs)

\* the single game every caller reads: chessEngine.getCurrentState() /
\* getBoardDisplay() of the module-level instance
GameObservedBy(s) == gameState

\* String.prototype.includes on character sequences
Includes(s, sub) ==
    \E i \in 1..(Len(s) - Len(sub) + 1) : SubSeq(s, i, i + Len(sub) - 1) = sub

ChessWord == <<"c", "h", "e", "s", "s">>

\* handleChessInteraction, line 434: the queries that start a new game
StartsNewGame(query) ==
    \/ query = ChessWord
    \/ Includes(query, <<"s", "t", "a", "r", "t">>)
    \/ Includes(query, <<"n", "e", "w">>)
    \/ Includes(query, <<"s", "h", "o", "w">>)

\* handleChessInteraction, line 438: /^[a-h][1-8][a-h][1-8]$/
IsCoordinateMove(query) ==
    RegexTest(SubSeq(movePattern, 1, 4), query)

UserMoves == {Mv("e","7","e","5"), Mv("d","7","d","5")}
EngineMoves == {Mv("g","1","f","3")}
ChessQueries == {ChessWord} \cup UserMoves

\* what the other parts do while the chess engine runs: nothing
ChessOnly == UNCHANGED <<valVars, storeVars, imgVars, chatVars, routeVars, clientVars>>

\* initializeStockfish / startStockfish: the engine process is spawned
StartStockfish ==
    /\ ~stockfish
    /\ stockfish' = TRUE
    /\ UNCHANGED <<gameState, isReady, searches, waiting, shown>>
    /\ ChessOnly

\* startStockfish, lines 675-681: the engine answers "uciok"
UciOk ==
    /\ stockfish /\ ~isReady
    /\ isReady' = TRUE
    /\ UNCHANGED <<gameState, stockfish, searches, waiting, shown>>
    /\ ChessOnly

\* startStockfish, lines 687-695: the engine process fails or exits
StockfishClose ==
    /\ stockfish /\ isReady
    /\ isReady' = FALSE
    /\ searches' = <<>>
    /\ UNCHANGED <<gameState, stockfish, waiting, shown>>
    /\ ChessOnly

\* the moves recorded in a run: a run begins with the empty move list, or
\* with a game that is one exchange from its end
NearEnd == MaxGameEnd - 2
PliesPlayed(moves) == IF Len(moves) >= NearEnd THEN Len(moves) - NearEnd ELSE Len(moves)

\* ChessEngine.makeMove(move) called for session s, up to its first
\* suspension: the whole call when the move is rejected, the game is over
\* or the engine is not ready, and up to the await of getAIMove otherwise
makeMove(s, move) ==
    /\ PliesPlayed(gameState.moves) + 2 <= MaxPlies
    /\ IF ~isValidMove(move)
       THEN /\ shown' = [shown EXCEPT ![s] = gameState.moves]
            /\ UNCHANGED <<gameState, searches, waiting>>
       ELSE LET pushed == [gameState EXCEPT !.moves = Append(@, move)]
            IN  IF pushed.gameOver
                THEN /\ gameState' = AfterAIMove(pushed, <<>>)
                     /\ shown' = [shown EXCEPT ![s] = gameState'.moves]
                     /\ UNCHANGED <<searches, waiting>>
                ELSE IF stockfish /\ isReady
                THEN /\ Len(searches) < MaxSearches
                     /\ gameState' = pushed
                     /\ searches' = Append(searches, Len(pushed.moves))
                     /\ waiting' = Append(waiting, s)
                     /\ UNCHANGED shown
                ELSE /\ gameState' = AfterAIMove(pushed, getFallbackMove(pushed))
                     /\ shown' = [shown EXCEPT ![s] = gameState'.moves]
                     /\ UNCHANGED <<searches, waiting>>

\* handleChessInteraction(query) called for a request of session s, up to
\* its first suspension: a new game, or makeMove, or the board as it is
HandleChess(s, query) ==
    /\ \A i \in DOMAIN waiting : waiting[i] # s
    /\ IF StartsNewGame(query)
       THEN /\ gameState' = NewGameState
            /\ shown' = [shown EXCEPT ![s] = NewGameState.moves]
            /\ UNCHANGED <<searches, waiting>>
       ELSE IF IsCoordinateMove(query)
       THEN makeMove(s, query)
       ELSE /\ shown' = [shown EXCEPT ![s] = gameState.moves]
            /\ UNCHANGED <<gameState, searches, waiting>>
    /\ UNCHANGED <<stockfish, isReady>>

\* a request of session s whose message carries the chess command query
ChessCommand(s, query) ==
    /\ HandleChess(s, query)
    /\ ChessOnly

\* the continuations of the makeMove calls in ws, run one after the other,
\* each resolved with aiMove
RECURSIVE ResumeAll(_, _, _)
ResumeAll(ws, aiMove, st) ==
    IF ws = <<>> THEN st
    ELSE LET gs == AfterAIMove(st.game, aiMove)
         IN  ResumeAll(Tail(ws), aiMove,
                       [game |-> gs, shown |-> [st.shown EXCEPT ![Head(ws)] = gs.moves]])

\* getAIMove, lines 758-765: the engine prints a bestmove line; every
\* listener registered on its stdout by a pending getAIMove resolves with it
BestMove(m) ==
    /\ stockfish /\ isReady
    /\ searches # <<>>
    /\ searches' = Tail(searches)
    /\ LET st == ResumeAll(waiting, m, [game |-> gameState, shown |-> shown])
       IN  /\ gameState' = st.game
           /\ shown' = st.shown
    /\ waiting' = <<>>
    /\ UNCHANGED <<stockfish, isReady>>
    /\ ChessOnly

\* getAIMove, line 755: 3000 ms have passed without a bestmove line; the
\* call of session s resolves with the table move for the current position
AITimeout(s) ==
    /\ \E i \in DOMAIN waiting : waiting[i] = s
    /\ LET st == ResumeAll(<<s>>, getFallbackMove(gameState),
                           [game |-> gameState, shown |-> shown])
       IN  /\ gameState' = st.game
           /\ shown' = st.shown
    /\ waiting' = SelectSeq(waiting, LAMBDA w : w # s)
    /\ UNCHANGED <<stockfish, isReady, searches>>
    /\ ChessOnly

InitChess ==
    /\ ChessIdle
    /\ ValidatorIdle
    /\ StoreEmpty
    /\ RoutesIdle
    /\ ClientIdle
    /\ ImageIdle
    /\ ChatIdle

NextChess ==
    \/ StartStockfish
    \/ UciOk
    \/ StockfishClose
    \/ \E s \in Sessions, q \in ChessQueries : ChessCommand(s, q)
    \/ \E m \in EngineMoves : BestMove(m)
    \/ \E s \in Sessions : AITimeout(s)

SpecChess == InitChess /\ [][NextChess]_vars

-----------------------------------------------------------------------------
(* Sequential callers of the engine: newGame and makeMove are called       *)
(* directly, and a call begins only when no makeMove call is pending.      *)

Upper(a, b, c, d) == <<a, b, c, d>>
RejectedMoves == {<<"z", "9", "z", "9">>}
DirectMoves == UserMoves \cup {Upper("E","7","E","5")} \cup RejectedMoves

\* chessEngine.newGame() for session s
SeqNewGame(s) ==
    /\ waiting = <<>>
    /\ gameState' = NewGameState
    /\ shown' = [shown EXCEPT ![s] = NewGameState.moves]
    /\ UNCHANGED <<stockfish, isReady, searches, waiting>>
    /\ ChessOnly

\* chessEngine.makeMove(move) for session s
SeqMakeMove(s, move) ==
    /\ waiting = <<>>
    /\ makeMove(s, move)
    /\ UNCHANGED <<stockfish, isReady>>
    /\ ChessOnly

NextChessSeq ==
    \/ StartStockfish
    \/ UciOk
    \/ StockfishClose
    \/ \E s \in Sessions : SeqNewGame(s)
    \/ \E s \in Sessions, m \in DirectMoves : SeqMakeMove(s, m)
    \/ \E m \in EngineMoves : BestMove(m)
    \/ \E s \in Sessions : AITimeout(s)

SpecChessSeq == InitChess /\ [][NextChessSeq]_vars

\* a game one exchange from its end: the user played e7e5 in every call and
\* the table, which is read by the number of recorded moves, answered
TableGame(n) ==
    [i \in 1..n |-> IF i % 2 = 1 THEN Mv("e","7","e","5")
                    ELSE getFallbackMove([moves |-> [j \in 1..(i - 1) |-> Mv("e","7","e","5")]])]

InitChessEnd ==
    /\ gameState = [NewGameState EXCEPT !.moves = TableGame(NearEnd)]
    /\ stockfish = FALSE
    /\ isReady = FALSE
    /\ searches = <<>>
    /\ waiting = <<>>
    /\ shown = [s \in Sessions |-> NotShown]
    /\ ValidatorIdle
    /\ StoreEmpty
    /\ RoutesIdle
    /\ ClientIdle
    /\ ImageIdle
    /\ ChatIdle

SpecChessEnd == InitChessEnd /\ [][NextChessSeq]_vars

-----------------------------------------------------------------------------
(* C15: while the game is not over, user and engine strictly alternate.    *)
(* With calls made one after the other, the move list has even length      *)
(* whenever no call is pending and odd length while one is; its odd        *)
(* positions hold accepted moves of the user and its even positions        *)
(* replies of the engine; and a rejected move leaves the game as it was.   *)

AcceptedMoves == {m \in DirectMoves : isValidMove(m)}
\* the moves getFallbackMove can return, one per number of recorded moves
TableMoves ==
    {getFallbackMove([moves |-> [i \in 1..n |-> Mv("e","7","e","5")]]) : n \in 0..MaxGameEnd}
EngineReplies == EngineMoves \cup TableMoves

C15_UserAndEngineAlternate ==
    /\ [](~gameState.gameOver =>
            /\ (waiting = <<>>) = (Len(gameState.moves) % 2 = 0)
            /\ \A i \in DOMAIN gameState.moves :
                   IF i % 2 = 1 THEN gameState.moves[i] \in AcceptedMoves
                   ELSE gameState.moves[i] \in EngineReplies)
    /\ [][\A s \in Sessions, m \in RejectedMoves :
              SeqMakeMove(s, m) => gameState' = gameState]_vars

\* witness: two makeMove calls have completed one after the other, the
\* first answered by the engine and the second by the table
C15_Witness ==
    /\ waiting = <<>>
    /\ Len(gameState.moves) = 4
    /\ gameState.moves[2] \in EngineMoves
    /\ gameState.moves[4] = getFallbackMove([moves |-> SubSeq(gameState.moves, 1, 3)])

-----------------------------------------------------------------------------
(* C16: with the external engine unavailable, the engine's reply in        *)
(* makeMove is a function of the number of moves recorded alone, and the   *)
(* replies of the first four engine turns of a new game are the            *)
(* opening-table moves e2e4, g1f3, f1c4, e1g1 in that order.               *)

OpeningTable == << Mv("e","2","e","4"), Mv("g","1","f","3"),
                   Mv("f","1","c","4"), Mv("e","1","g","1") >>

C16_FallbackRepliesAreOpeningTable ==
    (~stockfish /\ waiting = <<>>) =>
        /\ \A i \in DOMAIN gameState.moves :
               i % 2 = 0 =>
                   gameState.moves[i] =
                       getFallbackMove([moves |-> [j \in 1..(i - 1) |-> Mv("e","7","e","5")]])
        /\ \A k \in DOMAIN OpeningTable :
               Len(gameState.moves) >= 2 * k => gameState.moves[2 * k] = OpeningTable[k]

-----------------------------------------------------------------------------
(* C17: every makeMove call with a shape-valid move on a game that is not  *)
(* over completes, and it completes with an engine reply of the shape      *)
(* [a-h][1-8][a-h][1-8] recorded as the last move; when the engine is not  *)
(* available, or is ready but prints no bestmove line before the 3000 ms   *)
(* timer fires, the reply is the table move for the recorded moves.        *)

\* the requests of the sessions, which may overlap, with one spelling of a
\* user move
LiveMoves == {Mv("e","7","e","5")}

NextChessLive ==
    \/ StartStockfish
    \/ UciOk
    \/ StockfishClose
    \/ \E s \in Sessions, q \in {ChessWord} \cup LiveMoves : ChessCommand(s, q)
    \/ \E m \in EngineMoves : BestMove(m)
    \/ \E s \in Sessions : AITimeout(s)

\* the timer set at line 755 fires unless a bestmove line cleared it
SpecChessLive ==
    InitChess /\ [][NextChessLive]_vars /\ \A s \in Sessions : WF_vars(AITimeout(s))

InWaiting(w, s) == \E i \in DOMAIN w : w[i] = s
LastMove(gs) == gs.moves[Len(gs.moves)]

C17_MakeMoveCompletesWithReply ==
    /\ [][\A s \in Sessions :
              /\ (InWaiting(waiting, s) /\ ~InWaiting(waiting', s)) =>
                     /\ gameState'.moves # <<>>
                     /\ IsCoordinateMove(LastMove(gameState'))
                     /\ LastMove(gameState') \in EngineReplies
              /\ AITimeout(s) =>
                     gameState'.moves = Append(gameState.moves, getFallbackMove(gameState))
              /\ \A q \in LiveMoves :
                     (ChessCommand(s, q) /\ ~(stockfish /\ isReady)) =>
                         /\ waiting' = waiting
                         /\ Len(gameState'.moves) = Len(gameState.moves) + 2
                         /\ IsCoordinateMove(LastMove(gameState'))
                         /\ LastMove(gameState') =
                                getFallbackMove([moves |-> Append(gameState.moves, q)])
         ]_vars
    /\ \A s \in Sessions : InWaiting(waiting, s) ~> ~InWaiting(waiting, s)

\* witness: the engine is ready and has a search it did not answer, no call
\* is pending, and the last move is the table move: a call has completed
\* by its timer
C17_Witness ==
    /\ stockfish /\ isReady
    /\ searches # <<>>
    /\ waiting = <<>>
    /\ Len(gameState.moves) = 2
    /\ LastMove(gameState) = getFallbackMove([moves |-> SubSeq(gameState.moves, 1, 1)])

-----------------------------------------------------------------------------
(* C9: a chess command (new game or move) handled for one session leaves   *)
(* the chess game observed by every other session unchanged: once a        *)
(* session has been shown its game, no command of another session changes  *)
(* the game that session observes.                                         *)

C9_ChessCommandLeavesOtherSessionsGame ==
    [][\A s \in Sessions : \A t \in Sessions \ {s} :
          (shown[s] # NotShown /\ \E q \in ChessQueries : ChessCommand(t, q)) =>
              GameObservedBy(s)' = GameObservedBy(s)
    ]_vars

-----------------------------------------------------------------------------
(* Driver of the validator: the input is drawn from all strings of at most *)
(* MaxMoveLen characters over MoveAlphabet.                                *)

MaxMoveLen == 5
MoveAlphabet == {"e", "z", "2", "4", "9", "-", "q", "E"}

InitValidator ==
    /\ vInput \in SeqsUpTo(MoveAlphabet, MaxMoveLen)
    /\ vResult = "unchecked"
    /\ StoreEmpty
    /\ RoutesIdle
    /\ ClientIdle
    /\ ChessIdle
    /\ ImageIdle
    /\ ChatIdle

\* ChessEngine.makeMove, lines 711-717: the validation of the user's move
Validate ==
    /\ vResult = "unchecked"
    /\ vResult' = IF isValidMove(vInput) THEN "accepted" ELSE "rejected"
    /\ UNCHANGED <<vInput, storeVars, chessVars, imgVars, chatVars, routeVars, clientVars>>

NextValidator == Validate

SpecValidator == InitValidator /\ [][NextValidator]_vars

-----------------------------------------------------------------------------
(* C8 (as amended): the validator accepts exactly the strings that, once   *)
(* lower-cased, have the shape [a-h][1-8][a-h][1-8] optionally followed by *)
(* one promotion letter q, r, b or n.                                      *)

IsFile(c) == c \in Files \cup {"A", "B", "C", "D", "E", "F", "G", "H"}
IsRank(c) == c \in Ranks
IsPromotion(c) == c \in {"q", "r", "b", "n", "Q", "R", "B", "N"}

CoordinateShape(s) ==
    /\ Len(s) >= 4
    /\ IsFile(s[1]) /\ IsRank(s[2]) /\ IsFile(s[3]) /\ IsRank(s[4])

C8_AcceptsCoordinateWithOptionalPromotion ==
    vResult # "unchecked" =>
        (vResult = "accepted") <=>
            /\ CoordinateShape(vInput)
            /\ \/ Len(vInput) = 4
               \/ Len(vInput) = 5 /\ IsPromotion(vInput[5])

\* witness: a move with a promotion suffix in upper case has been accepted
C8_Witness ==
    /\ vResult = "accepted"
    /\ vInput = <<"E", "2", "e", "4", "q">>

(* C8 (original statement): the validator accepts exactly the strings of   *)
(* the shape [a-h][1-8][a-h][1-8].                                         *)
C8_Original_AcceptsExactlyFourCharShape ==
    vResult # "unchecked" =>
        (vResult = "accepted") <=>
            /\ Len(vInput) = 4
            /\ vInput[1] \in Files /\ vInput[2] \in Ranks
            /\ vInput[3] \in Files /\ vInput[4] \in Ranks

-----------------------------------------------------------------------------
(* generateImage and analyzeImage (services/vision, services/free-vision). *)
(* Each function awaits a list of fetches, one after the other.  A fetch   *)
(* is a point [name, raw, timeout]: raw is TRUE where the code returns a   *)
(* field of the reply as it came (data.data[0].url), timeout is TRUE where *)
(* the fetch carries a "timeout" option.                                   *)

Point(name, raw, timeout) == [name |-> name, raw |-> raw, timeout |-> timeout]

\* generateImageDALLE: generateWithFreeDALLE, generateWithPollinations, generateWithCraiyon
generateImageDALLE_points ==
    << Point(<<"generateImageDALLE", "generateWithFreeDALLE", 1>>, TRUE, FALSE),
       Point(<<"generateImageDALLE", "generateWithFreeDALLE", 2>>, TRUE, FALSE),
       Point(<<"generateImageDALLE", "generateWithPollinations", 1>>, FALSE, TRUE),
       Point(<<"generateImageDALLE", "generateWithPollinations", 2>>, FALSE, TRUE),
       Point(<<"generateImageDALLE", "generateWithPollinations", 3>>, FALSE, TRUE),
       Point(<<"generateImageDALLE", "generateWithCraiyon", 1>>, FALSE, FALSE) >>

\* generateImageWithEnhancedPollinations: four endpoints
EnhancedPollinations_points(caller) ==
    [i \in 1..4 |-> Point(<<caller, "generateImageWithEnhancedPollinations", i>>, FALSE, TRUE)]

\* what generateImage lists after generateImageDALLE: generateImageWithDALLE
\* (which ends in generateImageWithEnhancedPollinations), then the generators
generateImage_rest ==
    << Point(<<"generateImage", "generateImageWithDALLE", 1>>, TRUE, FALSE),
       Point(<<"generateImage", "generateImageWithDALLE", 2>>, TRUE, FALSE) >>
    \o EnhancedPollinations_points("generateImageWithDALLE")
    \o EnhancedPollinations_points("generators")
    \o << Point(<<"generators", "generateImageWithFreeAPIs", 1>>, FALSE, FALSE) >>

\* analyzeImageReliably: analyzeWithHuggingFace, analyzeWithFreeOpenAI, analyzeWithGoogleFree
analyzeImageReliably_points ==
    [i \in 1..3 |-> Point(<<"analyzeImageReliably", "analyzeWithHuggingFace", i>>, FALSE, FALSE)]
    \o [i \in 1..3 |-> Point(<<"analyzeImageReliably", "analyzeWithFreeOpenAI", i>>, FALSE, FALSE)]
    \o << Point(<<"analyzeImageReliably", "analyzeWithGoogleFree", 1>>, FALSE, FALSE) >>

\* what analyzeImage lists after analyzeImageReliably
analyzeImage_rest ==
    << Point(<<"analyzeImage", "analyzeImageWithContextualAI", 1>>, FALSE, FALSE),
       Point(<<"analyzeImage", "analyzeImageWithContextualAI", 2>>, FALSE, FALSE),
       Point(<<"analyzeImage", "analyzeImageWithGoogleVision", 1>>, FALSE, FALSE) >>

ReliableChain(fn) ==
    IF fn = "generateImage" THEN generateImageDALLE_points ELSE analyzeImageReliably_points
RestChain(fn) ==
    IF fn = "generateImage" THEN generateImage_rest ELSE analyzeImage_rest
SegChain(fn, seg) == IF seg = "reliable" THEN ReliableChain(fn) ELSE RestChain(fn)

\* every remote provider the function lists
Chain(fn) ==
    {ReliableChain(fn)[i].name : i \in DOMAIN ReliableChain(fn)}
        \cup {RestChain(fn)[i].name : i \in DOMAIN RestChain(fn)}

Prompts == {<<>>, <<"tomato">>, <<"abstract", " ", "art">>, <<"landscape">>, <<"cat">>}

HasWord(text, w) == \E i \in DOMAIN text : text[i] = w

Local(by, ref) == [origin |-> "local", threw |-> FALSE, type |-> "string", by |-> by, ref |-> ref]

\* a data: URI of one of the four drawings, chosen by the words of the prompt
generateCustomSVG(prompt) ==
    Local("generateCustomSVG",
          IF HasWord(prompt, "tomato") THEN "createTomatoSVG"
          ELSE IF HasWord(prompt, "abstract") \/ HasWord(prompt, "art") THEN "createAbstractArt"
          ELSE IF HasWord(prompt, "landscape") THEN "createLandscapeSVG"
          ELSE "createGenericArt")

\* the byte-level description; its own try/catch returns a fixed text
analyzeImageAdvanced(data) == Local("analyzeImageAdvanced", "description")

\* builds a source.unsplash.com URL without calling the network
generateImageWithUnsplash(prompt) == Local("generateImageWithUnsplash", "url")

analyzeImageWithEnhancedFallback(data) == Local("analyzeImageWithEnhancedFallback", "description")

\* what the reliable function returns when all its fetches failed
ReliableLocal(fn, input) ==
    IF fn = "generateImage" THEN generateCustomSVG(input) ELSE analyzeImageAdvanced(input)
\* what the function returns when the rest of its list failed too
RestLocal(fn, input) ==
    IF fn = "generateImage" THEN generateImageWithUnsplash(input)
    ELSE analyzeImageWithEnhancedFallback(input)

\* replies of a provider: network error, status outside 2xx, a 2xx reply
\* without the field looked for (or with an empty one), a 2xx reply with
\* it, a 2xx reply whose data[0].url is a number
Replies(pt) ==
    {"neterr", "non2xx", "unusable", "usable"} \cup (IF pt.raw THEN {"urlNumber"} ELSE {})

\* if (data.data && data.data[0] && data.data[0].url) return data.data[0].url
Accepts(pt, reply) == reply = "usable" \/ (reply = "urlNumber" /\ pt.raw)
ValueOf(pt, reply) ==
    [origin |-> "remote", threw |-> FALSE, by |-> pt.name, ref |-> "reply",
     type |-> IF reply = "urlNumber" THEN "number" ELSE "string"]

Returned == [seg |-> "returned", i |-> 0]
At(seg, i) == [seg |-> seg, i |-> i]
Goto(fn, seg, i) == [pc |-> At(seg, i), result |-> NoResult, fetch |-> <<SegChain(fn, seg)[i].name>>]
Return(r) == [pc |-> Returned, result |-> r, fetch |-> <<>>]

\* the next thing the function does after the fetch at pc failed
AfterFailure(fn, input, pc) ==
    IF pc.i < Len(SegChain(fn, pc.seg)) THEN Goto(fn, pc.seg, pc.i + 1)
    ELSE IF pc.seg = "reliable"
         THEN LET r == ReliableLocal(fn, input)
              IN  IF r.threw THEN Goto(fn, "rest", 1) ELSE Return(r)
         ELSE Return(RestLocal(fn, input))

Become(step) ==
    /\ imgPc' = step.pc
    /\ imgResult' = step.result
    /\ imgTried' = imgTried \o step.fetch
    /\ imgAwait' = "pending"

ImageOnly == UNCHANGED <<valVars, storeVars, chessVars, chatVars, routeVars, clientVars>>
AtFetch == imgPc.seg \in {"reliable", "rest"}
CurrentPoint == SegChain(imgFn, imgPc.seg)[imgPc.i]

\* the route calls generateImage(prompt) / analyzeImage(imageData)
CallImage ==
    /\ imgPc = NotCalled
    /\ Become(Goto(imgFn, "reliable", 1))
    /\ UNCHANGED <<imgFn, imgPrompt, fetchTimeout, routeBranch>>
    /\ ImageOnly

\* the awaited fetch settles
ProviderReplies(reply) ==
    /\ AtFetch /\ imgAwait = "pending"
    /\ reply \in Replies(CurrentPoint)
    /\ Become(IF Accepts(CurrentPoint, reply)
              THEN Return(ValueOf(CurrentPoint, reply))
              ELSE AfterFailure(imgFn, imgPrompt, imgPc))
    /\ UNCHANGED <<imgFn, imgPrompt, fetchTimeout, routeBranch>>
    /\ ImageOnly

\* the provider of the awaited fetch never answers
ProviderSilent ==
    /\ AtFetch /\ imgAwait = "pending"
    /\ imgAwait' = "silent"
    /\ UNCHANGED <<imgFn, imgPrompt, fetchTimeout, imgPc, imgTried, imgResult, routeBranch>>
    /\ ImageOnly

\* node-fetch rejects the fetch when its "timeout" option expires
FetchTimeout ==
    /\ AtFetch /\ imgAwait = "silent"
    /\ CurrentPoint.timeout /\ fetchTimeout
    /\ Become(AfterFailure(imgFn, imgPrompt, imgPc))
    /\ UNCHANGED <<imgFn, imgPrompt, fetchTimeout, routeBranch>>
    /\ ImageOnly

\* the route goes on with the value: imageUrl.includes(...) needs a string
RouteContinues ==
    /\ imgPc = Returned /\ routeBranch = "none"
    /\ routeBranch' = IF imgFn = "generateImage" /\ imgResult.type # "string"
                      THEN "failure" ELSE "success"
    /\ UNCHANGED <<imgFn, imgPrompt, fetchTimeout, imgPc, imgAwait, imgTried, imgResult>>
    /\ ImageOnly

InitImage ==
    /\ imgFn \in {"generateImage", "analyzeImage"}
    /\ imgPrompt \in Prompts
    /\ fetchTimeout \in BOOLEAN
    /\ imgPc = NotCalled
    /\ imgAwait = "pending"
    /\ imgTried = <<>>
    /\ imgResult = NoResult
    /\ routeBranch = "none"
    /\ ValidatorIdle /\ StoreEmpty /\ ChessIdle /\ ChatIdle /\ RoutesIdle /\ ClientIdle

NextImage ==
    \/ CallImage
    \/ \E reply \in {"neterr", "non2xx", "unusable", "usable", "urlNumber"} : ProviderReplies(reply)
    \/ ProviderSilent
    \/ FetchTimeout
    \/ RouteContinues

SpecImage == InitImage /\ [][NextImage]_vars

-----------------------------------------------------------------------------
(* C3: in generateImage and analyzeImage the locally computed result is    *)
(* returned only after every remote provider listed in the function's      *)
(* chain has been attempted and has failed.                                *)

C3_LocalOnlyAfterWholeChain ==
    imgResult.origin = "local" =>
        \A name \in Chain(imgFn) : \E i \in DOMAIN imgTried : imgTried[i] = name

-----------------------------------------------------------------------------
(* C7: generateImage never rejects; for every prompt and every combination *)
(* of provider outcomes it resolves to a non-empty image reference (a      *)
(* string), so the route's failure branch is never taken.                  *)

C7_GenerateImageAlwaysGivesReference ==
    imgFn = "generateImage" =>
        /\ imgPc = Returned => (~imgResult.threw /\ imgResult.type = "string")
        /\ routeBranch # "failure"

-----------------------------------------------------------------------------
(* generateSarcasticResponseStream and generateSarcasticResponse           *)
(* (services/openai).  A value is [type, text]: a JSON string, or a JSON   *)
(* number where the code expects a string.                                 *)

Str(text) == [type |-> "string", text |-> text]
Num == [type |-> "number", text |-> <<"42">>]
Truthy(v) == v.type = "number" \/ (v.type = "string" /\ v.text # <<>>)

\* String.prototype.trim
RECURSIVE TrimStart(_)
TrimStart(text) ==
    IF text # <<>> /\ Head(text) = " " THEN TrimStart(Tail(text)) ELSE text
Reverse(s) == [i \in 1..Len(s) |-> s[Len(s) + 1 - i]]
Trim(text) == Reverse(TrimStart(Reverse(TrimStart(text))))

\* String.prototype.split(' '): the pieces between the spaces
RECURSIVE Split(_)
Split(text) ==
    IF \A i \in DOMAIN text : text[i] # " " THEN <<text>>
    ELSE LET k == CHOOSE i \in DOMAIN text :
                      text[i] = " " /\ \A j \in 1..(i - 1) : text[j] # " "
         IN  <<SubSeq(text, 1, k - 1)>> \o Split(SubSeq(text, k + 1, Len(text)))

\* the loop of lines 265-268: chunk = i === 0 ? words[i] : ' ' + words[i]
WordChunks(text) ==
    LET words == Split(text)
    IN  [i \in DOMAIN words |-> IF i = 1 THEN words[i] ELSE <<" ">> \o words[i]]

\* lines 100 and 140: the text returned for an empty reply of LLM7
EmptyReplyText == <<"Well,", " ", "that's", " ", "embarrassing.">>
\* line 366: the text returned for an empty reply of Hugging Face
BackupBrainText == <<"Well,", " ", "my", " ", "backup", " ", "brain">>

\* a faulty variant: the first two models swapped
models_reordered == <<"microsoft/DialoGPT-medium", "microsoft/phi-2", "facebook/blenderbot-400M-distill">>
\* callHuggingFace, lines 153-157
models == <<"microsoft/phi-2", "microsoft/DialoGPT-medium", "facebook/blenderbot-400M-distill">>

\* the user messages of the model; String.prototype.includes on them is
\* decided word by word (no word of theirs contains another search word)
Messages == { <<"Hello">>, <<"why", " ", "so">>, <<"play", " ", "chess">>, <<"e7e5">>,
              <<"nearest", " ", "restaurant">> }
MoveSpelling == [w \in {"e7e5"} |-> Mv("e", "7", "e", "5")]

\* a word of firsts, a space, a word of seconds
Adjacent(msg, firsts, seconds) ==
    \E i \in 1..(Len(msg) - 2) :
        msg[i] \in firsts /\ msg[i + 1] = " " /\ msg[i + 2] \in seconds

\* extractChessQuery: the first pattern of the list that matches decides;
\* a move pattern returns the move, every other pattern 'chess'; <<>>
\* stands for null
extractChessQuery(message) ==
    LET msg == toLowerCase(message)
        spelled == {w \in DOMAIN MoveSpelling : IsCoordinateMove(MoveSpelling[w])}
    IN  \* /(?:play|start|begin)\s+chess/, /chess\s+(?:game|match)/
        IF \/ Adjacent(msg, {"play", "start", "begin"}, {"chess"})
           \/ Adjacent(msg, {"chess"}, {"game", "match"})
        THEN ChessWord
        \* /(?:make\s+move|move)\s+([a-h][1-8][a-h][1-8]|...)/
        ELSE IF Adjacent(msg, {"move"}, spelled)
        THEN MoveSpelling[msg[(CHOOSE i \in 1..(Len(msg) - 2) :
                                  /\ msg[i] = "move" /\ msg[i + 1] = " " /\ msg[i + 2] \in spelled
                                  /\ \A j \in 1..(i - 1) :
                                         ~(msg[j] = "move" /\ msg[j + 1] = " "
                                                          /\ msg[j + 2] \in spelled)) + 2]]
        \* /^([a-h][1-8][a-h][1-8])$/
        ELSE IF Len(msg) = 1 /\ msg[1] \in spelled
        THEN MoveSpelling[msg[1]]
        \* /new\s+chess\s+game/ is covered by /chess\s+(?:game|match)/;
        \* /chess\s+board/, /show\s+chess/, /stockfish/, /chess\s+engine/
        ELSE IF \/ Adjacent(msg, {"chess"}, {"board", "engine"})
                \/ Adjacent(msg, {"show"}, {"chess"})
                \/ HasWord(msg, "stockfish")
        THEN ChessWord
        ELSE <<>>

\* what the lookups of one function body meet: ip-api.com (a location, no
\* usable answer, or a location whose timezone name Intl does not know),
\* wttr.in (a report or no usable answer) and the Overpass API (places,
\* no places, or a network error or non-2xx answer)
LocationOutcomes == {"ok", "fails", "badTimezone"}
WeatherOutcomes == {"ok", "fails"}
PlacesOutcomes == {"found", "none", "fails"}

\* a faulty variant: a failed lookup makes getRealTimeData reject
getRealTimeData_rethrows(userLocation, loc, weather) ==
    [threw |-> (~userLocation /\ loc # "ok") \/ weather = "fails",
     location |-> IF userLocation THEN "gps" ELSE "ip",
     weather |-> weather = "ok"]

\* getRealTimeData: getLocationInfo and getWeatherInfo catch their errors
\* and return null; getCurrentTime throws a RangeError on an unknown
\* timezone name
getRealTimeData(userLocation, loc, weather) ==
    IF userLocation
    THEN [threw |-> FALSE, location |-> "gps", weather |-> weather = "ok"]
    ELSE IF loc = "fails"
    THEN [threw |-> FALSE, location |-> "none", weather |-> FALSE]
    ELSE [threw |-> loc = "badTimezone", location |-> "ip", weather |-> weather = "ok"]

\* formatRealTimeDataForAI: the time line always, the location line and
\* the weather lines when the data has them
formatRealTimeDataForAI(data) ==
    <<"*Real-time info:*", "\n", "time", "\n">>
        \o (IF data.location # "none" THEN <<"location", "\n">> ELSE <<>>)
        \o (IF data.weather THEN <<"weather", "\n">> ELSE <<>>)

\* extractPlacesQuery: the patterns
\* /(?:nearest|nearby|closest|find)\s+(restaurant|...)/ and
\* /(restaurant|...)s?\s+(?:near|nearby|close|around)/ ; <<>> stands for null
PlaceKinds == {"restaurant", "hospital", "bank", "pharmacy", "grocery", "hotel", "atm"}
extractPlacesQuery(message) ==
    LET msg == toLowerCase(message)
        first == {i \in 1..(Len(msg) - 2) :
                     /\ msg[i] \in {"nearest", "nearby", "closest", "find"}
                     /\ msg[i + 1] = " " /\ msg[i + 2] \in PlaceKinds}
        second == {i \in 1..(Len(msg) - 2) :
                     /\ msg[i] \in PlaceKinds /\ msg[i + 1] = " "
                     /\ msg[i + 2] \in {"near", "nearby", "close", "around"}}
    IN  IF first # {} THEN <<msg[(CHOOSE i \in first : \A k \in first : i <= k) + 2]>>
        ELSE IF second # {} THEN <<msg[CHOOSE i \in second : \A k \in second : i <= k]>>
        ELSE <<>>

\* findNearbyPlaces: the places found; the empty list when the request
\* fails (network error, non-2xx answer) as when nothing is found
findNearbyPlaces(outcome) == IF outcome = "found" THEN <<"place">> ELSE <<>>

\* formatPlacesForAI(places, searchType)
formatPlacesForAI(places, searchType) ==
    IF Len(places) = 0
    THEN <<"No", " ">> \o searchType \o <<" ", "found", " ", "nearby.">>
    ELSE <<"Nearby", " ">> \o searchType \o <<":", "\n">> \o places

\* generateIntelligentFallback(userMessage, realTimeInfo); <<>> stands for
\* an absent realTimeInfo
generateIntelligentFallback(userMessage, realTimeInfo) ==
    LET msg == toLowerCase(userMessage)
        has(w) == HasWord(msg, w)
        timeInfo == IF realTimeInfo # <<>> THEN <<"\n\n">> \o realTimeInfo ELSE <<>>
        template ==
            IF has("generate") /\ (has("image") \/ has("picture") \/ has("draw"))
                THEN <<"Oh,", " ", "visual", " ", "art?">>
            ELSE IF has("what") /\ (has("image") \/ has("picture") \/ has("this"))
                THEN <<"Ah,", " ", "guessing", " ", "game">>
            ELSE IF has("hello") \/ has("hi") \/ has("hey")
                THEN <<"Oh,", " ", "how", " ", "*original*!">>
            ELSE IF has("what") /\ (has("you") \/ has("can"))
                THEN <<"What", " ", "can", " ", "I", " ", "do?">>
            ELSE IF has("how") \/ has("why") \/ has("explain")
                THEN <<"You", " ", "asked:", " ">> \o userMessage \o <<" ", "explain">>
            ELSE IF has("time") \/ has("weather") \/ has("temperature")
                THEN <<"Well,", " ", "well...">>
            ELSE <<"You", " ", "asked:", " ">> \o userMessage \o <<" ", "offline.">>
    IN  template \o timeInfo

MaxChunks == 2         \* reads of the response stream before it ends

ChatSession == "s1"    \* the session the request belongs to
FailedStatus == {"neterr", "non2xx", "malformed"}
Reply(status, content) == [status |-> status, content |-> content]
\* replies of LLM7 to the non-streaming call: choices[0].message.content
LLM7Replies ==
    {Reply(s, NoReply) : s \in FailedStatus}
        \cup {Reply("ok", c) : c \in {Str(<<"A", " ", "B">>), Str(<<>>), Num}}
\* replies of a Hugging Face model: data[0].generated_text
HFReplies ==
    {Reply(s, NoReply) : s \in FailedStatus}
        \cup {Reply("ok", c) : c \in {Str(<<" ", "A", " ">>), Str(<<" ">>), Str(<<>>), Num}}
\* delta.content of one read of the stream; <<>> for a read without content
StreamContents == {<<>>, <<"A">>, <<" ", "B">>}

At3(fn, at, i) == [fn |-> fn, at |-> at, i |-> i]
Done == At3(cEntry, "done", 0)
Nested == cEntry = "stream" /\ cPc.fn = "plain"

Same ==
    [pc |-> cPc, context |-> cContext, invoked |-> cInvoked, full |-> cFull,
     chunks |-> cChunks, words |-> cWords, response |-> cResponse, result |-> cResult]

BecomeChat(step) ==
    /\ cPc' = step.pc
    /\ cContext' = step.context
    /\ cInvoked' = step.invoked
    /\ cFull' = step.full
    /\ cChunks' = step.chunks
    /\ cWords' = step.words
    /\ cResponse' = step.response
    /\ cResult' = step.result
    /\ cAwait' = "pending"
    /\ UNCHANGED <<cEntry, cMessage, cOnChunk, cUserLocation>>

\* a provider is called / the call awaited last settles
Invoke(log, provider, mode) ==
    Append(log, [provider |-> provider, mode |-> mode, outcome |-> "pending", value |-> NoReply])
Settle(log, outcome, value) ==
    [log EXCEPT ![Len(log)] = [@ EXCEPT !.outcome = outcome, !.value = value]]

\* the call resolves to v
Resolve(st, v) == [st EXCEPT !.pc = Done, !.result = v]

\* lines 264-274 and 291-300: pass v word by word, then return it
EmitWords(st, v) ==
    LET chunks == WordChunks(v.text)
    IN  [st EXCEPT !.pc = At3("stream", "emit", 0),
                   !.chunks = Append(@, Head(chunks)),
                   !.words = Tail(chunks),
                   !.response = v]

\* generateSarcasticResponse returns v
PlainReturns(st, v) ==
    IF ~Nested THEN Resolve(st, v)
    ELSE IF ~cOnChunk THEN Resolve(st, v)
    ELSE IF v.type = "string" THEN EmitWords(st, v)
    ELSE \* response.split is not a function: the catch of line 275
         LET errorResponse == Str(generateIntelligentFallback(cMessage, <<>>))
         IN  Resolve([st EXCEPT !.chunks = Append(@, errorResponse.text)], errorResponse)

\* a function body begins: await getRealTimeData(...)
BodyStarts(st, fn) == [st EXCEPT !.pc = At3(fn, "getRealTimeData", 0), !.context = <<>>]

\* the catch at the end of the function body running
BodyCatches(st) ==
    LET fallback == Str(generateIntelligentFallback(cMessage, <<>>))
    IN  IF cPc.fn = "plain" THEN PlainReturns(st, fallback)
        ELSE IF cOnChunk THEN EmitWords(st, fallback)
        ELSE Resolve(st, fallback)

\* callLLM7Stream threw: the catch of line 256 calls generateSarcasticResponse
StreamFails(st) == BodyStarts([st EXCEPT !.invoked = Settle(@, "failed", NoReply)], "plain")

\* a faulty variant: the failed model is tried again
NextModelIndex_retry(i) == i
\* the for loop of callHuggingFace goes on to the next model
NextModelIndex(i) == i + 1

\* the attempt at model i of callHuggingFace failed
ModelFails(st, i) ==
    LET failed == [st EXCEPT !.invoked = Settle(@, "failed", NoReply)]
    IN  IF i < Len(models)
        THEN [failed EXCEPT !.pc = At3("plain", "callHuggingFace", NextModelIndex(i)),
                            !.invoked = Invoke(@, models[NextModelIndex(i)], "plain")]
        ELSE PlainReturns(failed, Str(generateIntelligentFallback(cMessage, cContext)))

ChatOnly == UNCHANGED <<valVars, storeVars, imgVars, routeVars, clientVars>>
Awaiting(at) == cPc.at = at /\ cAwait = "pending"

\* lines 210-235 / 312-337: getRealTimeData resolves or throws, then the
\* places query and the chess command of the message are handled and
\* contextInfo is built.  The engine process does not run here, so
\* handleChessInteraction resolves without waiting for it.
ChatEnrich(loc, weather, places) ==
    /\ Awaiting("getRealTimeData")
    /\ LET realTimeData == getRealTimeData(cUserLocation, loc, weather)
           placesQuery == extractPlacesQuery(cMessage)
           q == extractChessQuery(cMessage)
           st == [Same EXCEPT !.context =
                     formatRealTimeDataForAI(realTimeData)
                         \o (IF placesQuery # <<>> /\ realTimeData.location # "none"
                             THEN <<"\n\n">> \o
                                  formatPlacesForAI(findNearbyPlaces(places), placesQuery)
                             ELSE <<>>)
                         \o (IF q # <<>> THEN <<"\n\n", "chessInfo">> ELSE <<>>)]
       IN  IF realTimeData.threw
           THEN /\ BecomeChat(BodyCatches(Same))
                /\ UNCHANGED chessVars
           ELSE /\ IF q # <<>> THEN HandleChess(ChatSession, q) ELSE UNCHANGED chessVars
                /\ BecomeChat(
                      IF cPc.fn = "stream"
                      THEN [st EXCEPT !.pc = At3("stream", "callLLM7Stream", 0),
                                      !.invoked = Invoke(@, "LLM7", "stream")]
                      ELSE [st EXCEPT !.pc = At3("plain", "callLLM7", 0),
                                      !.invoked = Invoke(@, "LLM7", "plain")])
    /\ ChatOnly

\* callLLM7Stream, lines 42-64: the fetch settles
StreamOpens(outcome) ==
    /\ Awaiting("callLLM7Stream")
    /\ BecomeChat(IF outcome = "ok"
                  THEN [Same EXCEPT !.pc = At3("stream", "reading", 0), !.full = <<>>]
                  ELSE StreamFails(Same))
    /\ UNCHANGED chessVars
    /\ ChatOnly

\* callLLM7Stream, lines 71-94: one read of the body carrying delta.content
StreamRead(content) ==
    /\ Awaiting("reading")
    /\ cPc.i < MaxChunks
    /\ BecomeChat([Same EXCEPT
           !.pc = At3("stream", "reading", cPc.i + 1),
           !.full = @ \o content,
           !.chunks = IF content # <<>> /\ cOnChunk THEN Append(@, content) ELSE @])
    /\ UNCHANGED chessVars
    /\ ChatOnly

\* callLLM7Stream: the body ends (line 72, then line 100) or a read rejects
StreamEnds(how) ==
    /\ Awaiting("reading")
    /\ BecomeChat(
          IF how = "done"
          THEN Resolve([Same EXCEPT !.invoked =
                           Settle(@, IF cFull # <<>> THEN "succeeded" ELSE "empty", Str(cFull))],
                       IF cFull # <<>> THEN Str(cFull) ELSE Str(EmptyReplyText))
          ELSE StreamFails(Same))
    /\ UNCHANGED chessVars
    /\ ChatOnly

\* callLLM7, lines 117-143, and lines 357-365 of its caller
LLM7Answers(reply) ==
    /\ Awaiting("callLLM7")
    /\ BecomeChat(
          IF reply.status = "ok"
          THEN PlainReturns(
                   [Same EXCEPT !.invoked =
                       Settle(@, IF Truthy(reply.content) THEN "succeeded" ELSE "empty",
                              reply.content)],
                   IF Truthy(reply.content) THEN reply.content ELSE Str(EmptyReplyText))
          ELSE [Same EXCEPT !.pc = At3("plain", "callHuggingFace", 1),
                            !.invoked = Invoke(Settle(@, "failed", NoReply), models[1], "plain")])
    /\ UNCHANGED chessVars
    /\ ChatOnly

\* callHuggingFace, lines 161-191, and lines 366-371 of its caller
HFAnswers(reply) ==
    /\ Awaiting("callHuggingFace")
    /\ BecomeChat(
          IF reply.status = "ok" /\ Truthy(reply.content) /\ reply.content.type = "string"
          THEN LET text == Trim(reply.content.text)
               IN  PlainReturns(
                       [Same EXCEPT !.invoked =
                           Settle(@, IF text # <<>> THEN "succeeded" ELSE "empty",
                                  reply.content)],
                       IF text # <<>> THEN Str(text) ELSE Str(BackupBrainText))
          ELSE ModelFails(Same, cPc.i))
    /\ UNCHANGED chessVars
    /\ ChatOnly

\* the party of the awaited fetch never answers; no fetch of this service
\* carries a timeout
NeverAnswers ==
    /\ cPc.at \in {"getRealTimeData", "callLLM7Stream", "reading", "callLLM7", "callHuggingFace"}
    /\ cAwait = "pending"
    /\ cAwait' = "silent"
    /\ UNCHANGED <<cEntry, cMessage, cOnChunk, cUserLocation, cPc, cContext, cInvoked, cFull,
                   cChunks, cWords, cResponse, cResult>>
    /\ UNCHANGED chessVars
    /\ ChatOnly

\* lines 266-274 / 293-300: the delay after a chunk is over
ChunkDelay ==
    /\ Awaiting("emit")
    /\ BecomeChat(IF cWords = <<>> THEN Resolve(Same, cResponse)
                  ELSE [Same EXCEPT !.chunks = Append(@, Head(cWords)), !.words = Tail(@)])
    /\ UNCHANGED chessVars
    /\ ChatOnly

InitChat ==
    /\ cEntry \in {"stream", "plain"}
    /\ cMessage \in Messages
    /\ cOnChunk \in (IF cEntry = "stream" THEN BOOLEAN ELSE {FALSE})
    /\ cUserLocation \in BOOLEAN
    /\ cPc = At3(cEntry, "getRealTimeData", 0)
    /\ cAwait = "pending"
    /\ cContext = <<>>
    /\ cInvoked = <<>>
    /\ cFull = <<>>
    /\ cChunks = <<>>
    /\ cWords = <<>>
    /\ cResponse = NoReply
    /\ cResult = NoReply
    /\ ValidatorIdle /\ StoreEmpty /\ ChessIdle /\ ImageIdle /\ RoutesIdle /\ ClientIdle

NextChat ==
    \/ \E loc \in LocationOutcomes, weather \in WeatherOutcomes, places \in PlacesOutcomes :
           ChatEnrich(loc, weather, places)
    \/ \E outcome \in {"neterr", "non2xx", "noBody", "ok"} : StreamOpens(outcome)
    \/ \E content \in StreamContents : StreamRead(content)
    \/ \E how \in {"done", "error"} : StreamEnds(how)
    \/ \E reply \in LLM7Replies : LLM7Answers(reply)
    \/ \E reply \in HFReplies : HFAnswers(reply)
    \/ NeverAnswers
    \/ ChunkDelay

SpecChat == InitChat /\ [][NextChat]_vars

-----------------------------------------------------------------------------
(* Claims about the chat functions.                                        *)

HasReturned(entry) == cEntry = entry /\ cPc.at = "done"
\* the invocations made by generateSarcasticResponse
PlainInvoked == SelectSeq(cInvoked, LAMBDA e : e.mode = "plain")
InvocationCount(provider, mode) ==
    Cardinality({i \in DOMAIN cInvoked :
                    cInvoked[i].provider = provider /\ cInvoked[i].mode = mode})
HuggingFaceModels ==
    {"microsoft/phi-2", "microsoft/DialoGPT-medium", "facebook/blenderbot-400M-distill"}

(* C1: generateSarcasticResponse never rejects; for every user message and *)
(* every combination of enrichment and provider outcomes it resolves to a  *)
(* non-empty string, and when LLM7 and all Hugging Face models fail the    *)
(* value is the output of generateIntelligentFallback.                     *)
C1_ResolvesToNonEmptyString ==
    HasReturned("plain") =>
        /\ cResult.type = "string" /\ cResult.text # <<>>
        /\ (Len(cInvoked) = 4 /\ \A i \in DOMAIN cInvoked : cInvoked[i].outcome = "failed")
               => cResult = Str(generateIntelligentFallback(cMessage, cContext))

(* C2: in generateSarcasticResponse the providers are attempted in the     *)
(* order LLM7, microsoft/phi-2, microsoft/DialoGPT-medium,                 *)
(* facebook/blenderbot-400M-distill; a provider is invoked only if every   *)
(* earlier one failed, and the value of the first provider that succeeds   *)
(* (trimmed, for a Hugging Face model) is returned with no later provider  *)
(* invoked.                                                                *)
C2_ProvidersInOrderFirstSuccessReturned ==
    LET inv == PlainInvoked
        order == <<"LLM7", "microsoft/phi-2", "microsoft/DialoGPT-medium",
                   "facebook/blenderbot-400M-distill">>
    IN  /\ Len(inv) <= Len(order)
        /\ \A i \in DOMAIN inv : i <= Len(order) => inv[i].provider = order[i]
        /\ \A i \in DOMAIN inv : i < Len(inv) => inv[i].outcome = "failed"
        /\ (HasReturned("plain") /\ inv # <<>> /\ inv[Len(inv)].outcome = "succeeded") =>
               cResult = IF Len(inv) = 1 THEN inv[1].value
                         ELSE Str(Trim(inv[Len(inv)].value.text))

\* witness: LLM7 and phi-2 failed, DialoGPT-medium answered " A " and "A" was returned
C2_Witness ==
    /\ HasReturned("plain")
    /\ Len(cInvoked) = 3
    /\ cInvoked[1].outcome = "failed" /\ cInvoked[2].outcome = "failed"
    /\ cInvoked[3].provider = "microsoft/DialoGPT-medium"
    /\ cInvoked[3].outcome = "succeeded"
    /\ cInvoked[3].value = Str(<<" ", "A", " ">>)
    /\ cResult = Str(<<"A">>)

(* C4: every call eventually returns, also when some provider never        *)
(* answers: a call that awaits a provider can always take another step     *)
(* (the provider answers, or its timeout abandons it).                     *)
C4_EveryCallCanGoOn ==
    cPc.at \in {"callLLM7Stream", "reading", "callLLM7", "callHuggingFace"} => ENABLED NextChat

(* C5 (as amended): generateSarcasticResponse invokes no provider more     *)
(* than once; generateSarcasticResponseStream invokes each Hugging Face    *)
(* model at most once and LLM7 at most twice, once with streaming and,     *)
(* only after that call failed, once without.                              *)
C5_NoProviderTwiceInOneMode ==
    /\ \A p \in {"LLM7"} \cup HuggingFaceModels, m \in {"stream", "plain"} :
           InvocationCount(p, m) <= 1
    /\ \A p \in HuggingFaceModels : InvocationCount(p, "stream") = 0
    /\ cEntry = "plain" => InvocationCount("LLM7", "stream") = 0
    /\ \A i \in DOMAIN cInvoked :
           (cEntry = "stream" /\ cInvoked[i].provider = "LLM7" /\ cInvoked[i].mode = "plain") =>
               /\ i = 2
               /\ cInvoked[1].provider = "LLM7" /\ cInvoked[1].mode = "stream"
               /\ cInvoked[1].outcome = "failed"

\* witness: a streaming request that went through LLM7 twice and every model once
C5_Witness ==
    /\ HasReturned("stream")
    /\ Len(cInvoked) = 5
    /\ InvocationCount("LLM7", "stream") = 1 /\ InvocationCount("LLM7", "plain") = 1
    /\ \A p \in HuggingFaceModels : InvocationCount(p, "plain") = 1

(* C5 (original statement): while one request is handled, no provider is   *)
(* invoked more than once.                                                 *)
C5_Original_NoProviderInvokedTwice ==
    \A p \in {"LLM7"} \cup HuggingFaceModels :
        InvocationCount(p, "stream") + InvocationCount(p, "plain") <= 1

(* C6: in generateSarcasticResponseStream, for every outcome the           *)
(* concatenation of all chunks passed to onChunk equals the returned       *)
(* string.                                                                 *)
C6_ChunksConcatEqualsReturned ==
    (HasReturned("stream") /\ cOnChunk) =>
        /\ cResult.type = "string"
        /\ Concat(cChunks) = cResult.text

-----------------------------------------------------------------------------
(* C13: a failed location or weather lookup never aborts response          *)
(* generation.  When the geolocation request was made and failed, or the   *)
(* weather request was made and failed, the context built by the function  *)
(* body has the time line, has no line of the lookup that failed, and the  *)
(* body goes on to call the first provider.                                *)

-----------------------------------------------------------------------------
(* C20: when the nearby-places lookup fails, the places section is omitted *)
(* from the context given to the model and response generation proceeds.   *)

PlacesLookupMade(loc, weather) ==
    /\ extractPlacesQuery(cMessage) # <<>>
    /\ ~getRealTimeData(cUserLocation, loc, weather).threw
    /\ getRealTimeData(cUserLocation, loc, weather).location # "none"

C20_FailedPlacesLookupOmitsSection ==
    [][\A loc \in LocationOutcomes, weather \in WeatherOutcomes :
          (ChatEnrich(loc, weather, "fails") /\ PlacesLookupMade(loc, weather)) =>
              /\ ~HasWord(cContext', "nearby.")
              /\ ~HasWord(cContext', "Nearby")
              /\ cPc'.at \in {"callLLM7", "callLLM7Stream"}
    ]_vars

-----------------------------------------------------------------------------
(* The HTTP routes of the chat sessions (registerRoutes).  A handler runs   *)
(* without interruption between two awaits of an outside service (image    *)
(* generation, image analysis, the chat provider): the awaits of the       *)
(* in-memory storage resolve before any other request's code runs.  A      *)
(* request that awaits an outside service is kept in inflight with the     *)
(* stage it waits at; the services answer in any order.                    *)

MaxRouteIds == 4    \* identifiers handed out to sessions and messages by the routes
MaxInFlight == 1    \* requests that await an outside service at one time

RouteOnly == UNCHANGED <<valVars, chessVars, imgVars, chatVars, clientVars>>

\* the store as a value, for the handlers that make several storage calls
Store == [sessions |-> chatSessions, messages |-> chatMessages, count |-> uuidCount]

BecomeStore(st) ==
    /\ chatSessions' = st.sessions
    /\ chatMessages' = st.messages
    /\ uuidCount' = st.count
    /\ UNCHANGED now

\* MemStorage.createChatSession
createChatSession(st, userId) ==
    LET id == st.count + 1
        session == [id |-> id, userId |-> userId, title |-> <<"New", " ", "Chat">>,
                    createdAt |-> now, updatedAt |-> now]
    IN  [st EXCEPT !.sessions = MapSet(@, id, session), !.count = id]

\* MemStorage.createChatMessage
createChatMessage(st, sessionId, role, content) ==
    LET id == st.count + 1
        message == [id |-> id, sessionId |-> sessionId, role |-> role,
                    content |-> content, createdAt |-> now]
    IN  [st EXCEPT !.messages = MapSet(@, id, message), !.count = id]

\* the message the last createChatMessage call returned
Created(st) == MapGet(st.messages, st.count)

\* MemStorage.updateChatSession
updateChatSession(st, id, withTitle, title) ==
    IF MapHas(st.sessions, id)
    THEN LET session == MapGet(st.sessions, id)
             updated == [session EXCEPT
                           !.title = IF withTitle THEN title ELSE @,
                           !.updatedAt = now]
         IN  [st EXCEPT !.sessions = MapSet(@, id, updated)]
    ELSE st

\* MemStorage.deleteChatSession
deleteChatSession(st, id) ==
    IF MapHas(st.sessions, id)
    THEN [st EXCEPT !.sessions = MapDelete(@, id),
                    !.messages = deleteSessionMessages(@, id)]
    ELSE st

\* the characters of a piece of text
WordLength(w) ==
    CASE w \in {" ", "\n", "X", "I", "a", "s", ":", ",", "!", "'", "\""} -> 1
      [] w \in {"**", "an", "my", "to"} -> 2
      [] w \in {"cat", "can", "see", "you", "but", "are", "Use", "..."} -> 3
      [] w \in {"User", "this"} -> 4
      [] w \in {"Image", "image", "photo", "Quick"} -> 5
      [] w \in {"vision", "having", "moment", "visual"} -> 6
      [] w \in {"explain", "Explain", "physics", "message", "context", "provide", "helpful",
                "nearest", "Nearest"} -> 7
      [] w \in {"Analysis", "uploaded", "circuits", "Original", "response", "Uploaded"} -> 8
      [] w = "restaurant" -> 10
      [] w = "IMAGE_GENERATION" -> 16
      [] w = "[IMAGE_GENERATION]" -> 18

RECURSIVE Length(_)
Length(text) == IF text = <<>> THEN 0 ELSE WordLength(Head(text)) + Length(Tail(text))

\* String.prototype.replace(/[^\w\s]/g, '')
Punctuation == {"**", ":", ",", "!", "'", "\"", "..."}
RemovePunctuation(text) ==
    LET kept == SelectSeq(text, LAMBDA w : w \notin Punctuation)
    IN  [i \in DOMAIN kept |-> IF kept[i] = "[IMAGE_GENERATION]"
                               THEN "IMAGE_GENERATION" ELSE kept[i]]

\* String.prototype.substring(0, n), to the last whole piece
RECURSIVE Substring(_, _)
Substring(text, n) ==
    IF text = <<>> \/ WordLength(Head(text)) > n THEN <<>>
    ELSE <<Head(text)>> \o Substring(Tail(text), n - WordLength(Head(text)))

\* String.prototype.toUpperCase of the first character
Capitalize(text) ==
    IF text # <<>> /\ Head(text) = "explain" THEN <<"Explain">> \o Tail(text)
    ELSE IF text # <<>> /\ Head(text) = "image" THEN <<"Image">> \o Tail(text)
    ELSE IF text # <<>> /\ Head(text) = "nearest" THEN <<"Nearest">> \o Tail(text)
    ELSE text

Undefined == [type |-> "undefined", text |-> <<>>]

\* generateTitleFromMessage: [threw, title]; message.trim() of a value that
\* is no string is a TypeError
generateTitleFromMessage(message) ==
    IF message.type # "string" THEN [threw |-> TRUE, title |-> <<>>]
    ELSE LET cleaned == Substring(RemovePunctuation(Trim(message.text)), 50)
         IN  IF Length(cleaned) < 10
             THEN [threw |-> FALSE, title |-> <<"Quick", " ", "Chat">>]
             ELSE [threw |-> FALSE,
                   title |-> IF Length(cleaned) >= 50
                             THEN Capitalize(cleaned) \o <<"...">>
                             ELSE Capitalize(cleaned)]

\* formatImageAnalysisForAI (services/vision)
formatImageAnalysisForAI(imageDescription, userPrompt) ==
    <<"**", "Image", " ", "Analysis", ":", "**", "\n">> \o imageDescription
    \o (IF userPrompt # <<>>
        THEN <<"\n", "\n", "User", "'", "s", " ", "message", ":", " ", "\"">>
             \o userPrompt \o <<"\"">>
        ELSE <<>>)
    \o <<"\n", "\n", "Use", " ", "this", " ", "visual", " ", "context", " ", "to", " ",
         "provide", " ", "a", " ", "helpful", " ", "response", "!">>

\* filterPersonalInformation: the texts below hold no e-mail address, phone
\* number, card number or social security number, so none is replaced
filterPersonalInformation(text) == text

\* enhanceResponseWithWebData: the texts below hold none of its keywords,
\* so the response is returned as it is
enhanceResponseWithWebData(userMessage, aiResponse) == aiResponse

NoMessage == [id |-> 0]
ErrorText == <<"Oops", "!">>
AlternativesText == <<"Try", " ", "these", " ", "alternatives">>
ImageUploaded == <<"Image", " ", "uploaded">>
ImageFallText == <<"Well", ",", " ", "I", " ", "saw", " ", "your", " ", "image">>

\* the request bodies of the clients: content is a string (possibly empty)
\* or is absent
RouteContents == {<<>>, <<"explain", " ", "physics">>, <<"[IMAGE_GENERATION]", " ", "cat">>}
Descriptions == {<<"a", " ", "photo">>}
ImageUrls == {<<"data:image/svg+xml">>}

\* the session ids a request names: those of the sessions that are stored,
\* that have messages or that a request waits for
RouteSessionIds ==
    StoredSessionIds(chatSessions)
        \cup {chatMessages[i].sessionId : i \in DOMAIN chatMessages}
        \cup {inflight[i].sessionId : i \in DOMAIN inflight}

Response(route, sessionId, status, kind, malformed, userMessage, aiMessage) ==
    [route |-> route, sessionId |-> sessionId, status |-> status, kind |-> kind,
     malformed |-> malformed, userMessage |-> userMessage, aiMessage |-> aiMessage]

\* a request that awaits an outside service; sent is the message list
\* handed to the chat provider, <<>> while another service is awaited
Request(route, stage, sessionId, content, userMessage, sent) ==
    [route |-> route, stage |-> stage, sessionId |-> sessionId, content |-> content,
     userMessage |-> userMessage, sent |-> sent]

\* Array.prototype.slice(-n)
LastN(seq, n) == SubSeq(seq, IF Len(seq) > n THEN Len(seq) - n + 1 ELSE 1, Len(seq))

\* messages.map(msg => ({ role: msg.role, content: msg.content })); of is
\* the id of the stored message the entry was made from
AsHistory(messages) ==
    [i \in DOMAIN messages |->
        [role |-> messages[i].role, content |-> messages[i].content, of |-> messages[i].id]]

\* generateSarcasticResponse: the messages built for the provider from
\* conversationHistory and userMessage; of is the id of the stored message
\* whose text userMessage is (0 for the system message)
LLMMessages(conversationHistory, userMessage, of) ==
    <<[role |-> "system", content |-> Str(<<"enhancedPrompt">>), of |-> 0]>>
        \o LastN(conversationHistory, 8)
        \o <<[role |-> "user", content |-> userMessage, of |-> of]>>

Remove(seq, i) == SubSeq(seq, 1, i - 1) \o SubSeq(seq, i + 1, Len(seq))

\* POST /api/chat/sessions
PostSession(valid, userId) ==
    /\ IF valid
       THEN /\ uuidCount < MaxRouteIds
            /\ LET st == createChatSession(Store, userId)
               IN  /\ BecomeStore(st)
                   /\ lastResponse' = Response("sessions", st.count, 200, "session",
                                               FALSE, NoMessage, NoMessage)
       ELSE /\ lastResponse' = Response("sessions", NoSession, 400, "error",
                                        TRUE, NoMessage, NoMessage)
            /\ UNCHANGED storeVars
    /\ UNCHANGED inflight
    /\ RouteOnly

\* DELETE /api/chat/sessions/:id
DeleteSession(id) ==
    /\ BecomeStore(deleteChatSession(Store, id))
    /\ lastResponse' = IF deleteChatSession_returns(id)
                       THEN Response("delete", id, 200, "deleted", FALSE, NoMessage, NoMessage)
                       ELSE Response("delete", id, 404, "error", FALSE, NoMessage, NoMessage)
    /\ UNCHANGED inflight
    /\ RouteOnly

\* POST /api/chat/sessions/:id/messages, the catch of the handler: the error
\* message is stored and the response has status 500
ChatError(st, sessionId, malformed) ==
    LET st1 == createChatMessage(st, sessionId, "assistant", Str(ErrorText))
    IN  /\ BecomeStore(st1)
        /\ lastResponse' = Response("messages", sessionId, 500, "error", malformed,
                                    NoMessage, Created(st1))

\* POST /api/chat/sessions/:id/messages from "Filter personal information"
\* to the call of generateSarcasticResponse
SaveUserMessage(st, i, sessionId, processedContent) ==
    LET filteredContent == filterPersonalInformation(processedContent)
        st1 == createChatMessage(st, sessionId, "user", Str(filteredContent))
        existingMessages == getSessionMessagesOf(st1.messages, sessionId)
        st2 == IF Len(existingMessages) <= 1
               THEN updateChatSession(st1, sessionId, TRUE,
                        generateTitleFromMessage(Str(filteredContent)).title)
               ELSE st1
        messages == getSessionMessagesOf(st2.messages, sessionId)
        conversationHistory == AsHistory(LastN(messages, 10))
        waits == Request("messages", "generateSarcasticResponse", sessionId,
                         Str(filteredContent), Created(st1),
                         LLMMessages(conversationHistory, Str(filteredContent),
                                     Created(st1).id))
    IN  /\ BecomeStore(st2)
        /\ inflight' = IF i = 0 THEN Append(inflight, waits)
                       ELSE [inflight EXCEPT ![i] = waits]
        /\ UNCHANGED lastResponse

\* messageSchema.parse(req.body) returns: content is a string of at least one
\* character, role is "user", userLocation is absent, null or an object with
\* numbers lat and lon (keys the schema does not name are stripped), and
\* imageUrl is absent or a string
HasNumber(location, key) == \E f \in location.fields : f[1] = key /\ f[2] \in Int

messageSchema(body) ==
    /\ body.content.type = "string"
    /\ Len(body.content.text) >= 1
    /\ body.role = "user"
    /\ \/ body.userLocation.type \in {"undefined", "null"}
       \/ /\ body.userLocation.type = "object"
          /\ HasNumber(body.userLocation, "lat")
          /\ HasNumber(body.userLocation, "lon")

\* POST /api/chat/sessions/:id/messages up to its first await of an outside
\* service, on the body of the request
PostMessageBody(sessionId, body) ==
    /\ uuidCount < MaxRouteIds
    /\ IF ~messageSchema(body)
       THEN \* messageSchema.parse throws
            /\ ChatError(Store, sessionId, TRUE)
            /\ UNCHANGED inflight
       ELSE /\ Len(inflight) < MaxInFlight
            /\ IF Head(body.content.text) = "[IMAGE_GENERATION]"
               THEN /\ inflight' = Append(inflight,
                          Request("messages", "generateImage", sessionId,
                                  Str(Trim(Tail(body.content.text))), NoMessage, <<>>))
                    /\ UNCHANGED <<storeVars, lastResponse>>
               ELSE IF body.hasImageUrl
               THEN /\ inflight' = Append(inflight,
                          Request("messages", "analyzeImage", sessionId, body.content,
                                  NoMessage, <<>>))
                    /\ UNCHANGED <<storeVars, lastResponse>>
               ELSE SaveUserMessage(Store, 0, sessionId, body.content.text)

\* the route called with a body of role "user" and no userLocation.  content
\* is the content of the body ([type |-> "undefined"] when the body has
\* none), hasImageUrl whether the body has an imageUrl
PostMessage(sessionId, content, hasImageUrl) ==
    /\ PostMessageBody(sessionId, [content |-> content, role |-> "user",
                                   userLocation |-> NoLocation,
                                   hasImageUrl |-> hasImageUrl])
    /\ RouteOnly

\* what an outside service answers: a string, a number where a string is
\* expected, or a rejection
Rejected == [type |-> "rejected", text |-> <<>>]
AIOutcomes == {Str(<<"A">>), Num, Rejected}
ImageOutcomes == {Str(url) : url \in ImageUrls} \cup {Num, Rejected}
AnalysisOutcomes == {Str(d) : d \in Descriptions} \cup {Rejected}

\* the four texts of a generated image, chosen by imageUrl.includes
ImageText(prompt, imageUrl) ==
    LET how == IF imageUrl = <<"data:image/svg+xml">> THEN "masterpiece"
               ELSE IF imageUrl = <<"https://image.pollinations.ai/cat">> THEN "AI-generated"
               ELSE "image"
    IN  <<"Here's", " ", "your", " ", how, " ">> \o prompt \o <<"\n">> \o imageUrl

AnalysisTroubleText ==
    <<"I", " ", "can", " ", "see", " ", "an", " ", "image", ",", " ", "but", " ", "trouble">>

AnalysisFailedText(content) ==
    <<"I", " ", "can", " ", "see", " ", "you", " ", "uploaded", " ", "an", " ", "image",
      ",", " ", "but", " ", "my", " ", "vision", " ", "circuits", " ", "are", " ",
      "having", " ", "a", " ", "moment", "!", " ", "Original", " ", "message", ":", " ">>
    \o content

\* POST /api/chat/sessions/:id/messages, an image generation request, from
\* the answer of generateImage to the response
ImageGenerated(i, imageUrl) ==
    /\ i \in DOMAIN inflight
    /\ inflight[i].stage = "generateImage"
    /\ LET sessionId == inflight[i].sessionId
           prompt == inflight[i].content.text
           asked == Str(<<"Generate", " ", "an", " ", "image", ":", " ">> \o prompt)
           \* the catch block: user message and the alternatives
           alternatives(st) ==
               LET st1 == createChatMessage(st, sessionId, "user", asked)
                   st2 == createChatMessage(st1, sessionId, "assistant", Str(AlternativesText))
               IN  /\ st2.count <= MaxRouteIds
                   /\ BecomeStore(st2)
                   /\ lastResponse' = Response("messages", sessionId, 200, "alternatives",
                                               FALSE, Created(st1), Created(st2))
       IN  CASE imageUrl.type = "rejected" -> alternatives(Store)
             [] imageUrl.type = "number" ->
                  \* the user message is stored, then imageUrl.includes throws
                  alternatives(createChatMessage(Store, sessionId, "user", asked))
             [] imageUrl.type = "string" ->
                  LET st1 == createChatMessage(Store, sessionId, "user", asked)
                      st2 == createChatMessage(st1, sessionId, "assistant",
                                               Str(ImageText(prompt, imageUrl.text)))
                      messages == getSessionMessagesOf(st2.messages, sessionId)
                      st3 == IF Len(messages) <= 2
                             THEN updateChatSession(st2, sessionId, TRUE,
                                      generateTitleFromMessage(Str(prompt)).title)
                             ELSE st2
                  IN  /\ st3.count <= MaxRouteIds
                      /\ BecomeStore(st3)
                      /\ lastResponse' = Response("messages", sessionId, 200, "exchange",
                                                  FALSE, Created(st1), Created(st2))
    /\ inflight' = Remove(inflight, i)
    /\ RouteOnly

\* POST /api/chat/sessions/:id/messages-with-image up to the await of analyzeImage
PostMessageWithImage(sessionId, hasFile, content) ==
    /\ IF hasFile
       THEN /\ Len(inflight) < MaxInFlight
            /\ inflight' = Append(inflight,
                   Request("withImage", "analyzeImage", sessionId, content, NoMessage, <<>>))
            /\ UNCHANGED lastResponse
       ELSE /\ lastResponse' = Response("withImage", sessionId, 400, "error", TRUE,
                                        NoMessage, NoMessage)
            /\ UNCHANGED inflight
    /\ UNCHANGED storeVars
    /\ RouteOnly

\* both message routes, from the answer of analyzeImage to the call of
\* generateSarcasticResponse
ImageAnalysed(i, analysis) ==
    /\ i \in DOMAIN inflight
    /\ inflight[i].stage = "analyzeImage"
    /\ uuidCount < MaxRouteIds
    /\ LET req == inflight[i]
       IN  IF req.route = "messages"
           THEN SaveUserMessage(Store, i, req.sessionId,
                    IF analysis.type = "string"
                    THEN formatImageAnalysisForAI(analysis.text, req.content.text)
                    ELSE AnalysisFailedText(req.content.text))
           ELSE LET \* content || "Image uploaded"
                    stored == IF Truthy(req.content) THEN req.content ELSE Str(ImageUploaded)
                    st1 == createChatMessage(Store, req.sessionId, "user", stored)
                    imageAnalysis == IF analysis.type = "string" THEN analysis.text
                                     ELSE AnalysisTroubleText
                    \* formatImageAnalysisForAI(imageAnalysis, content || "")
                    contextualPrompt ==
                        formatImageAnalysisForAI(imageAnalysis,
                            IF Truthy(req.content) THEN req.content.text ELSE <<>>)
                    sessionMessages == getSessionMessagesOf(st1.messages, req.sessionId)
                IN  /\ BecomeStore(st1)
                    /\ inflight' = [inflight EXCEPT ![i] =
                           Request("withImage", "generateSarcasticResponse", req.sessionId,
                                   req.content, Created(st1),
                                   LLMMessages(AsHistory(LastN(sessionMessages, 10)),
                                               Str(contextualPrompt), Created(st1).id))]
                    /\ UNCHANGED lastResponse
    /\ RouteOnly

\* POST /api/chat/sessions/:id/regenerate up to the await of generateSarcasticResponse
Regenerate(sessionId) ==
    /\ LET messages == getSessionMessages(sessionId)
           userMessages == SelectSeq(messages, LAMBDA msg : msg.role = "user")
       IN  IF Len(messages) < 2 \/ userMessages = <<>>
           THEN /\ lastResponse' = Response("regenerate", sessionId, 400, "error", FALSE,
                                            NoMessage, NoMessage)
                /\ UNCHANGED inflight
           ELSE /\ Len(inflight) < MaxInFlight
                /\ inflight' = Append(inflight,
                       Request("regenerate", "generateSarcasticResponse", sessionId,
                               userMessages[Len(userMessages)].content,
                               userMessages[Len(userMessages)],
                               \* messages.slice(0, -1).slice(-10)
                               LLMMessages(
                                   AsHistory(LastN(SubSeq(messages, 1, Len(messages) - 1), 10)),
                                   userMessages[Len(userMessages)].content,
                                   userMessages[Len(userMessages)].id)))
                /\ UNCHANGED lastResponse
    /\ UNCHANGED storeVars
    /\ RouteOnly

\* the three message routes, from the answer of generateSarcasticResponse
\* to the response
AIResponds(i, aiResponse) ==
    /\ i \in DOMAIN inflight
    /\ inflight[i].stage = "generateSarcasticResponse"
    /\ uuidCount < MaxRouteIds
    /\ LET req == inflight[i]
           sessionId == req.sessionId
       IN  CASE req.route = "messages" ->
                  IF aiResponse.type = "string"
                  THEN LET enhanced == enhanceResponseWithWebData(req.content, aiResponse)
                           st1 == createChatMessage(Store, sessionId, "assistant", enhanced)
                           st2 == updateChatSession(st1, sessionId, FALSE, <<>>)
                       IN  /\ BecomeStore(st2)
                           /\ lastResponse' = Response("messages", sessionId, 200, "exchange",
                                                       FALSE, req.userMessage, Created(st1))
                  ELSE \* a rejection, or aiResponse.includes of a number
                       ChatError(Store, sessionId, FALSE)
             [] req.route = "withImage" ->
                  LET answered == IF aiResponse.type = "rejected"
                                  THEN Str(ImageFallText) ELSE aiResponse
                      st1 == createChatMessage(Store, sessionId, "assistant", answered)
                      allMessages == getSessionMessagesOf(st1.messages, sessionId)
                      title == generateTitleFromMessage(req.content)
                  IN  IF Len(allMessages) <= 2 /\ title.threw
                      THEN /\ BecomeStore(st1)
                           /\ lastResponse' = Response("withImage", sessionId, 500, "error",
                                                       FALSE, NoMessage, NoMessage)
                      ELSE /\ BecomeStore(IF Len(allMessages) <= 2
                                          THEN updateChatSession(st1, sessionId, TRUE, title.title)
                                          ELSE st1)
                           /\ lastResponse' = Response("withImage", sessionId, 200, "exchange",
                                                       FALSE, req.userMessage, Created(st1))
             [] req.route = "regenerate" ->
                  IF aiResponse.type = "rejected"
                  THEN /\ lastResponse' = Response("regenerate", sessionId, 500, "error",
                                                   FALSE, NoMessage, NoMessage)
                       /\ UNCHANGED storeVars
                  ELSE LET enhanced == enhanceResponseWithWebData(req.content, aiResponse)
                           st1 == createChatMessage(Store, sessionId, "assistant", enhanced)
                       IN  /\ BecomeStore(st1)
                           /\ lastResponse' = Response("regenerate", sessionId, 200, "exchange",
                                                       FALSE, NoMessage, Created(st1))
    /\ inflight' = Remove(inflight, i)
    /\ RouteOnly

\* the system clock advances between two steps of the handlers
RouteTick ==
    /\ now < MaxClock
    /\ now' = now + 1
    /\ UNCHANGED <<chatSessions, chatMessages, uuidCount, routeVars>>
    /\ RouteOnly

BodyContents == {Str(c) : c \in RouteContents}
FormContents == {Undefined, Str(<<"explain", " ", "physics">>)}

InitRoutes ==
    /\ StoreEmpty
    /\ RoutesIdle
    /\ ClientIdle
    /\ ValidatorIdle
    /\ ChessIdle
    /\ ImageIdle
    /\ ChatIdle

NextRoutes ==
    \/ \E valid \in BOOLEAN : PostSession(valid, "anonymous")
    \/ \E id \in RouteSessionIds : DeleteSession(id)
    \/ \E id \in RouteSessionIds, c \in BodyContents, hasImageUrl \in BOOLEAN :
           PostMessage(id, c, hasImageUrl)
    \/ \E id \in RouteSessionIds, hasFile \in BOOLEAN, c \in FormContents :
           PostMessageWithImage(id, hasFile, c)
    \/ \E id \in RouteSessionIds : Regenerate(id)
    \/ \E i \in 1..MaxInFlight, imageUrl \in ImageOutcomes : ImageGenerated(i, imageUrl)
    \/ \E i \in 1..MaxInFlight, analysis \in AnalysisOutcomes : ImageAnalysed(i, analysis)
    \/ \E i \in 1..MaxInFlight, aiResponse \in AIOutcomes : AIResponds(i, aiResponse)
    \/ RouteTick

SpecRoutes == InitRoutes /\ [][NextRoutes]_vars

-----------------------------------------------------------------------------
(* C14: a POST of a chat message whose content is empty to                 *)
(* /api/chat/sessions/:id/messages is answered with a client error: when   *)
(* the last response answers such a request (the bodies posted hold a      *)
(* string as content, so the malformed ones are those with the empty       *)
(* string), its status is in 400..499.                                     *)

C14_EmptyContentIsClientError ==
    (lastResponse.route = "messages" /\ lastResponse.malformed)
        => lastResponse.status \in 400..499

-----------------------------------------------------------------------------
(* C19: after every successful message exchange in a session (plain text,  *)
(* image generation, uploaded image, regenerate) the session's updatedAt   *)
(* is advanced: at the step that sends the success response of an exchange *)
(* of a stored session, the session's updatedAt is not earlier than the    *)
(* creation time of the assistant message of the exchange, and no stored   *)
(* session of the same user has a later updatedAt, so that                 *)
(* getUserChatSessions lists among the first the session of the exchange.  *)

C19_ExchangeAdvancesUpdatedAt ==
    [][(/\ lastResponse' # lastResponse
        /\ lastResponse'.route \in {"messages", "withImage", "regenerate"}
        /\ lastResponse'.status = 200
        /\ lastResponse'.kind = "exchange"
        /\ MapHas(chatSessions', lastResponse'.sessionId))
       => LET session == MapGet(chatSessions', lastResponse'.sessionId)
          IN  /\ session.updatedAt >= lastResponse'.aiMessage.createdAt
              /\ \A i \in DOMAIN chatSessions' :
                     chatSessions'[i].userId = session.userId
                         => chatSessions'[i].updatedAt <= session.updatedAt
    ]_vars

-----------------------------------------------------------------------------
(* C21: a POST to /api/chat/sessions/:id/messages-with-image with an image *)
(* file and no text content is answered with a success response that holds *)
(* the stored user message, of content "Image uploaded", and an assistant   *)
(* message, whatever the chat provider answers and whether or not the      *)
(* exchange is the first of the session: the step that answers such a      *)
(* request sends status 200 with both messages, and both are stored.       *)

C21_ImageWithoutTextSucceeds ==
    [][\A i \in 1..MaxInFlight, aiResponse \in AIOutcomes :
          (/\ AIResponds(i, aiResponse)
           /\ inflight[i].route = "withImage"
           /\ ~Truthy(inflight[i].content))
          => /\ lastResponse'.route = "withImage"
             /\ lastResponse'.status = 200
             /\ lastResponse'.userMessage.id # 0
             /\ lastResponse'.userMessage.role = "user"
             /\ lastResponse'.userMessage.content = Str(ImageUploaded)
             /\ lastResponse'.aiMessage.id # 0
             /\ lastResponse'.aiMessage.role = "assistant"
             /\ MapHas(chatMessages', lastResponse'.userMessage.id)
             /\ MapHas(chatMessages', lastResponse'.aiMessage.id)
    ]_vars

-----------------------------------------------------------------------------
(* The local image-analysis generators: analyzeImageAdvanced               *)
(* (services/free-vision) and analyzeImageWithEnhancedFallback             *)
(* (services/vision).  A byte buffer is [size, magic, fill]: its length,   *)
(* its first bytes, and the value of every byte after them.                *)

Jpeg == <<255, 216, 255>>
Png == <<137, 80, 78, 71>>
Gif == <<71, 73, 70, 56>>
BufferSizes == {0, 2, 3, 4, 20, 99, 100, 101, 150, 300, 512, 500001, 2000001}
Magics == {<<>>, <<255, 216>>, Jpeg, Png, Gif}
Fills == {0, 79, 80, 200, 201, 255}
Buffers ==
    {b \in [type : {"string"}, size : BufferSizes, magic : Magics, fill : Fills] :
        /\ Len(b.magic) <= b.size
        /\ b.size = Len(b.magic) => b.fill = 0}

\* buffer[i], i counted from 0
ByteAt(buffer, i) == IF i < Len(buffer.magic) THEN buffer.magic[i + 1] ELSE buffer.fill

Min(a, b) == IF a < b THEN a ELSE b

\* Buffer.prototype.slice(start, end): [from, to), clipped to the buffer
Slice(buffer, start, end) ==
    [from |-> Min(start, buffer.size), to |-> Min(end, buffer.size), of |-> buffer]

\* header.toString('hex').startsWith(signature), signature given as bytes
HexStartsWith(slice, signature) ==
    /\ slice.to - slice.from >= Len(signature)
    /\ \A i \in DOMAIN signature : ByteAt(slice.of, slice.from + i - 1) = signature[i]

\* Array.from(sample).reduce((sum, byte) => sum + byte, 0); the bytes are
\* integers below 256, so the sum is exact and is added up here by halves
RECURSIVE SumBytes(_, _, _)
SumBytes(buffer, from, to) ==
    IF from >= to THEN 0
    ELSE IF to = from + 1 THEN ByteAt(buffer, from)
    ELSE LET mid == (from + to) \div 2
         IN  SumBytes(buffer, from, mid) + SumBytes(buffer, mid, to)

\* sum / sample.length as [sum, length]; 0 / 0 is NaN, and every
\* comparison with NaN is false
avgBrightness(sample) ==
    [sum |-> SumBytes(sample.of, sample.from, sample.to), length |-> sample.to - sample.from]
IsNaN(q) == q.length = 0
GreaterThan(q, n) == ~IsNaN(q) /\ q.sum > n * q.length
LessThan(q, n) == ~IsNaN(q) /\ q.sum < n * q.length

\* Math.round(size / 1024)
RoundKB(size) == (2 * size + 1024) \div 2048

\* a faulty variant: the catch block throws again
Caught_rethrows(text) == [threw |-> TRUE, kb |-> 0, text |-> <<>>]

\* the catch block of both generators returns a fixed text
Caught(text) == [threw |-> FALSE, kb |-> 0, text |-> text]

\* analyzeImageAdvanced (free-vision.ts); Buffer.from of a value that is
\* no string is a TypeError, caught by the function
analyzeImageAdvancedText(data) ==
    IF data.type # "string"
    THEN Caught(<<"I", " ", "can", " ", "see", " ", "your", " ", "image", "!">>)
    ELSE LET header == Slice(data, 0, 20)
             format == IF HexStartsWith(header, Jpeg) THEN <<"Format:JPEG">>
                       ELSE IF HexStartsWith(header, Png) THEN <<"Format:PNG">>
                       ELSE IF HexStartsWith(header, Gif) THEN <<"Format:GIF">>
                       ELSE <<>>
             quality == IF data.size > 2000000 THEN <<"Quality:High">>
                        ELSE IF data.size > 500000 THEN <<"Quality:Standard">>
                        ELSE <<"Quality:Compressed">>
             brightness == avgBrightness(Slice(data, 100, 300))
             tone == IF GreaterThan(brightness, 200) THEN <<"Tone:Bright">>
                     ELSE IF LessThan(brightness, 80) THEN <<"Tone:Dark">>
                     ELSE <<"Tone:Balanced">>
         IN  [threw |-> FALSE, kb |-> RoundKB(data.size),
              text |-> <<"Advanced", " ", "Image", " ", "Analysis">> \o format \o <<"Size">>
                       \o quality \o tone \o <<"AI", " ", "Insight">>]

\* analyzeImageWithEnhancedFallback (vision.ts); imageBase64.includes of a
\* value that is no string is a TypeError, caught by the function
analyzeImageWithEnhancedFallbackText(data) ==
    IF data.type # "string"
    THEN Caught(<<"I", " ", "can", " ", "see", " ", "your", " ", "image", " ", "upload", "!">>)
    ELSE LET header == Slice(data, 0, 20)
             format == IF HexStartsWith(header, Jpeg)
                       THEN <<"JPEG">> \o (IF data.size > 2000000 THEN <<"High">>
                                           ELSE IF data.size > 500000 THEN <<"Standard">>
                                           ELSE <<"Compressed">>)
                       ELSE IF HexStartsWith(header, Png) THEN <<"PNG">>
                       ELSE IF HexStartsWith(header, Gif) THEN <<"GIF">>
                       ELSE <<>>
             brightness == avgBrightness(Slice(data, 100, 200))
             tone == IF GreaterThan(brightness, 200) THEN <<"bright">>
                     ELSE IF LessThan(brightness, 80) THEN <<"dark">>
                     ELSE <<"moderate">>
         IN  [threw |-> FALSE, kb |-> RoundKB(data.size),
              text |-> <<"I", " ", "can", " ", "see", " ", "an", " ", "uploaded", " ", "image">>
                       \o format \o tone \o <<"Tell", " ", "me">>]

LocalGenerators == {"analyzeImageAdvanced", "analyzeImageWithEnhancedFallback"}

\* one call of a local generator on the data; no endpoint is fetched
AnalyseLocally(fn) ==
    /\ imgFn = "none"
    /\ imgFn' = fn
    /\ imgResult' = IF fn = "analyzeImageAdvanced"
                    THEN analyzeImageAdvancedText(imgPrompt)
                    ELSE analyzeImageWithEnhancedFallbackText(imgPrompt)
    /\ UNCHANGED <<imgPrompt, fetchTimeout, imgPc, imgAwait, imgTried, routeBranch>>
    /\ ImageOnly

InitLocal ==
    /\ StoreEmpty
    /\ RoutesIdle
    /\ ClientIdle
    /\ ValidatorIdle
    /\ ChessIdle
    /\ ChatIdle
    /\ imgFn = "none"
    /\ imgPrompt \in Buffers \cup {Undefined}
    /\ fetchTimeout = FALSE
    /\ imgPc = NotCalled
    /\ imgAwait = "pending"
    /\ imgTried = <<>>
    /\ imgResult = NoResult
    /\ routeBranch = "none"

NextLocal == \E fn \in LocalGenerators : AnalyseLocally(fn)

SpecLocal == InitLocal /\ [][NextLocal]_vars

-----------------------------------------------------------------------------
(* C22: the local image-analysis generators are total: for every byte      *)
(* buffer, the empty one and those shorter than the sampled window         *)
(* included, analyzeImageAdvanced and analyzeImageWithEnhancedFallback     *)
(* return a non-empty description, do not throw, and fetch no endpoint.    *)

-----------------------------------------------------------------------------
(* C23: every stored chat message belongs to a stored session: in every    *)
(* state reached by the session and message routes, in any interleaving    *)
(* (a delete may arrive while a message request of the session awaits its  *)
(* AI response), the sessionId of each stored message is the id of a       *)
(* stored session.                                                         *)

C23_MessagesBelongToStoredSessions ==
    \A i \in DOMAIN chatMessages : MapHas(chatSessions, chatMessages[i].sessionId)

-----------------------------------------------------------------------------
(* C24: a finished chess game is terminal: once gameOver is true (the move *)
(* list reached 100 moves), no makeMove call adds a move: every step taken *)
(* while gameOver is true either starts a new game or leaves the move list *)
(* as it is, and the move list never has more than 100 entries.            *)

C24_FinishedGameIsTerminal ==
    [][/\ Len(gameState'.moves) <= MaxGameEnd
       /\ gameState.gameOver =>
              (gameState' = NewGameState \/ gameState'.moves = gameState.moves)]_vars

-----------------------------------------------------------------------------
(* Chess commands given as user messages: extractChessQuery finds the      *)
(* query, handleChessInteraction runs it.                                  *)

ShowBoardMessages == {<<"show", " ", "chess", " ", "board">>, <<"chess", " ", "board">>}
BoardMessages ==
    ShowBoardMessages \cup {<<"play", " ", "chess">>, <<"move", " ", "e7e5">>, <<"e7e5">>}

\* a request of session s whose message is message
ChessMessage(s, message) ==
    /\ extractChessQuery(message) # <<>>
    /\ ChessCommand(s, extractChessQuery(message))

NextChessBoard ==
    \/ StartStockfish
    \/ UciOk
    \/ StockfishClose
    \/ \E s \in Sessions, message \in BoardMessages : ChessMessage(s, message)
    \/ \E m \in EngineMoves : BestMove(m)
    \/ \E s \in Sessions : AITimeout(s)

SpecChessBoard == InitChess /\ [][NextChessBoard]_vars

-----------------------------------------------------------------------------
(* C25: a request to see the chess board ("show chess board", "chess       *)
(* board") displays the current position and leaves the game state         *)
(* unchanged: the move list and the gameOver flag after the request equal  *)
(* those before it, and the moves displayed are those recorded.            *)

C25_ShowBoardLeavesGameUnchanged ==
    [][\A s \in Sessions, message \in ShowBoardMessages :
          ChessMessage(s, message) =>
              /\ gameState'.moves = gameState.moves
              /\ gameState'.gameOver = gameState.gameOver
              /\ shown'[s] = gameState.moves
    ]_vars

-----------------------------------------------------------------------------
(* C26: handling one user message applies its chess command to the shared  *)
(* game at most once: for every provider outcome, the streaming provider   *)
(* failing and the non-streaming path taking over included, a user move    *)
(* contained in the message is in the move list at most once while the     *)
(* message is handled, and exactly once when the call has returned after   *)
(* a function body got as far as handling the command.                     *)

TimesRecorded(move) ==
    Cardinality({i \in DOMAIN gameState.moves : gameState.moves[i] = move})

C26_MoveRecordedOnce ==
    LET q == extractChessQuery(cMessage)
    IN  (q # <<>> /\ IsCoordinateMove(q)) =>
            /\ TimesRecorded(q) <= 1
            /\ (cPc.at = "done" /\ HasWord(cContext, "chessInfo")) => TimesRecorded(q) = 1

-----------------------------------------------------------------------------
(* C27: the engine move returned by a makeMove call is the engine's answer *)
(* to the position sent by that same call: a bestmove line produced for an *)
(* earlier call's search is never returned as the reply of a different     *)
(* call.  With calls made one after the other, the pending call sent the   *)
(* search that is last in searches, and the engine answers the one that is *)
(* first: whenever a bestmove line resumes a call, the two are the same.   *)

C27_ReplyAnswersOwnSearch ==
    [][\A m \in EngineMoves :
          (BestMove(m) /\ waiting # <<>>) =>
              /\ Len(searches) = 1
              /\ Head(searches) = Len(gameState.moves)
    ]_vars

-----------------------------------------------------------------------------
(* C28: the message list sent to the chat provider consists of one system  *)
(* message, at most 8 messages of earlier conversation history, and the    *)
(* current user message exactly once, as the last entry, both for a new    *)
(* message and for regenerate.                                             *)

C28_ProviderMessagesWellFormed ==
    \A i \in DOMAIN inflight :
        (/\ inflight[i].stage = "generateSarcasticResponse"
         /\ inflight[i].route \in {"messages", "regenerate"})
        => LET sent == inflight[i].sent
               current == inflight[i].userMessage.id
           IN  /\ Len(sent) >= 2
               /\ Len(sent) <= 10
               /\ \A k \in DOMAIN sent : (sent[k].role = "system") = (k = 1)
               /\ sent[Len(sent)].role = "user"
               /\ sent[Len(sent)].of = current
               /\ Cardinality({k \in DOMAIN sent : sent[k].of = current}) = 1

-----------------------------------------------------------------------------
(* C29: when the first user message of a session is successfully processed *)
(* by POST /api/chat/sessions/:id/messages, the session title is replaced  *)
(* by the title generated from that message, whatever requests the session *)
(* received before (requests rejected as invalid included), and later      *)
(* messages never change the title: at the step that answers such a        *)
(* request with success, the stored session's title is the title generated *)
(* from the message if it is the only user message of the session, and is  *)
(* the title the session had before the message was stored otherwise.      *)

UserMessagesOf(messages, sessionId) ==
    SelectSeq(getSessionMessagesOf(messages, sessionId), LAMBDA m : m.role = "user")

C29_FirstMessageSetsTitle ==
    [][\A i \in 1..MaxInFlight, aiResponse \in AIOutcomes :
          (/\ AIResponds(i, aiResponse)
           /\ inflight[i].route = "messages"
           /\ lastResponse'.status = 200
           /\ MapHas(chatSessions', inflight[i].sessionId))
          => LET req == inflight[i]
                 session == MapGet(chatSessions', req.sessionId)
             IN  IF UserMessagesOf(chatMessages', req.sessionId) = <<req.userMessage>>
                 THEN session.title = generateTitleFromMessage(req.userMessage.content).title
                 ELSE session.title = MapGet(chatSessions, req.sessionId).title
    ]_vars

-----------------------------------------------------------------------------
(* The Chat page (client/src/pages/chat) and the hook useGeolocation, with  *)
(* the server's routes that answer it.                                      *)

Latitudes == {-33, 51}
Longitudes == {0, 151}

\* a GeolocationData as JSON.stringify writes it
GeolocationData(latitude, longitude) ==
    [type |-> "object",
     fields |-> {<<"latitude", latitude>>, <<"longitude", longitude>>,
                 <<"accuracy", 10>>, <<"timestamp", 0>>}]

\* what the user types
ClientInputs == {<<" ">>, <<"explain", " ", "physics">>, <<"nearest", " ", "restaurant">>}

\* requestLocationIfNeeded's test: the message holds one of the keywords
locationKeywords == {"nearest", "nearby", "closest", "mcdonald", "restaurant", "hospital"}
needsLocation(message) == \E i \in DOMAIN message : message[i] \in locationKeywords

\* createNewSession's response arrives: setCurrentSessionId(session.id)
SessionCreated ==
    /\ currentSessionId = 0
    /\ lastResponse.route = "sessions"
    /\ lastResponse.status = 200
    /\ currentSessionId' = lastResponse.sessionId
    /\ UNCHANGED <<geoData, messageInput, isTyping, submitPc, submitBody, submitOutcome>>
    /\ UNCHANGED <<valVars, storeVars, chessVars, imgVars, chatVars, routeVars>>

\* the user fills the input box
TypeMessage(text) ==
    /\ messageInput = <<>>
    /\ messageInput' = text
    /\ UNCHANGED <<geoData, isTyping, currentSessionId, submitPc, submitBody, submitOutcome>>
    /\ UNCHANGED <<valVars, storeVars, chessVars, imgVars, chatVars, routeVars>>

\* handleSubmit up to its first await.  The body is built after
\* requestLocationIfNeeded from messageContent and from geolocation.data of
\* the render that made this handleSubmit, both fixed here
handleSubmit ==
    /\ Trim(messageInput) # <<>>
    /\ currentSessionId # 0
    /\ ~isTyping
    /\ LET messageContent == Trim(messageInput)
       IN  /\ messageInput' = <<>>
           /\ isTyping' = TRUE
           /\ submitBody' = [content |-> Str(messageContent), role |-> "user",
                             userLocation |-> geoData, hasImageUrl |-> FALSE]
           /\ submitPc' = IF needsLocation(messageContent) /\ geoData = NullLocation
                          THEN "requestPermission" ELSE "fetch"
    /\ UNCHANGED <<geoData, currentSessionId, submitOutcome>>
    /\ UNCHANGED <<valVars, storeVars, chessVars, imgVars, chatVars, routeVars>>

\* useGeolocation.requestPermission ends: with a position (setData), or
\* without one (no navigator.geolocation, or getCurrentPosition rejects)
requestPermission(granted, latitude, longitude) ==
    /\ submitPc = "requestPermission"
    /\ geoData' = IF granted THEN GeolocationData(latitude, longitude) ELSE geoData
    /\ submitPc' = "fetch"
    /\ UNCHANGED <<messageInput, isTyping, currentSessionId, submitBody, submitOutcome>>
    /\ UNCHANGED <<valVars, storeVars, chessVars, imgVars, chatVars, routeVars>>

\* fetch(`/api/chat/sessions/${currentSessionId}/messages`): the route runs
\* on the body up to its first await
Fetch ==
    /\ submitPc = "fetch"
    /\ PostMessageBody(currentSessionId, submitBody)
    /\ submitPc' = "response"
    /\ UNCHANGED <<geoData, messageInput, isTyping, currentSessionId, submitBody,
                   submitOutcome>>
    /\ UNCHANGED <<valVars, chessVars, imgVars, chatVars>>

\* the response arrives: setMessages with data.userMessage and data.aiMessage
\* when response.ok, the toast "Failed to send message" otherwise; finally
\* setIsTyping(false)
ReceiveResponse ==
    /\ submitPc = "response"
    /\ inflight = <<>>
    /\ submitOutcome' = IF lastResponse.status = 200 THEN "ok" ELSE "toast"
    /\ isTyping' = FALSE
    /\ submitPc' = "idle"
    /\ UNCHANGED <<geoData, messageInput, currentSessionId, submitBody>>
    /\ UNCHANGED <<valVars, storeVars, chessVars, imgVars, chatVars, routeVars>>

\* the page after its mount: useGeolocation's effect has set data from
\* localStorage when a location less than five minutes old is cached there
InitClient ==
    /\ StoreEmpty
    /\ RoutesIdle
    /\ ValidatorIdle
    /\ ChessIdle
    /\ ImageIdle
    /\ ChatIdle
    /\ geoData \in {NullLocation}
                   \cup {GeolocationData(la, lo) : la \in Latitudes, lo \in Longitudes}
    /\ messageInput = <<>>
    /\ isTyping = FALSE
    /\ currentSessionId = 0
    /\ submitPc = "idle"
    /\ submitBody = NoBody
    /\ submitOutcome = "none"

NextClient ==
    \/ currentSessionId = 0 /\ lastResponse = NoResponse /\ PostSession(TRUE, "anonymous")
    \/ SessionCreated
    \/ \E text \in ClientInputs : TypeMessage(text)
    \/ handleSubmit
    \/ \E granted \in BOOLEAN, la \in Latitudes, lo \in Longitudes :
           requestPermission(granted, la, lo)
    \/ Fetch
    \/ \E i \in 1..MaxInFlight, aiResponse \in AIOutcomes : AIResponds(i, aiResponse)
    \/ ReceiveResponse

SpecClient == InitClient /\ [][NextClient]_vars

(* C30: every request body the Chat client builds for                       *)
(* POST /api/chat/sessions/:id/messages satisfies the server's message      *)
(* schema, also when geolocation data is available and sent as              *)
(* userLocation, and such a message is accepted: a body the client has sent *)
(* parses under messageSchema, and no response to it is the error response  *)
(* of a malformed request.                                                  *)
C30_ClientBodySatisfiesSchema ==
    submitPc = "response"
    => /\ messageSchema(submitBody)
       /\ ~(inflight = <<>> /\ lastResponse.route = "messages" /\ lastResponse.malformed)

====
